---- MODULE Spec2Model ----
(***************************************************************************)
(* A model of the SPREE prototype: the parachain host environment          *)
(* (polkadot-re-mock/src/parachain.rs), the SPREE module host environment  *)
(* (polkadot-re-mock/src/spree.rs), the lamport-clock SPREE module         *)
(* (spree-lamport-clock) and the dummy parachain (dummy-parachain).        *)
(*                                                                         *)
(* Bytes are naturals below 256, blobs are sequences of bytes.  The SCALE  *)
(* codec is modelled byte for byte.  Every blob of the model is shorter    *)
(* than 64 bytes and every decoded integer fits 31 bits.                   *)
(***************************************************************************)
EXTENDS Naturals, Integers, Sequences, FiniteSets, TLC

(***************************************************************************)
(* Bounds of the model.                                                    *)
(***************************************************************************)
\* call_spree calls one validate_block may issue
MaxCalls == 4
\* Enqueue requests are issued only while the persisted timestamp is below this
MaxTimestamp == 3
\* host calls and stores the free SPREE guest may issue, over all invocations
MaxHostCalls == 3
\* invocations of the free SPREE guest
MaxInvokes == 2

(***************************************************************************)
(* SCALE codec (parity-scale-codec), as used through derive(Encode,Decode) *)
(***************************************************************************)
Fail == [ok |-> FALSE]

Ok(v, rest) == [ok |-> TRUE, val |-> v, rest |-> rest]

\* the `?` of a decode: a failure is handed on, a success goes on to F
AndThen(r, F(_)) == IF r.ok THEN F(r) ELSE Fail

\* `let x = v;` followed by F, with v evaluated where it stands
With(v, F(_)) == F(v)

Drop(s, n) == SubSeq(s, n + 1, Len(s))

Take(s, n) == SubSeq(s, 1, n)

RECURSIVE EncodeLE(_, _)
\* fixed-width little-endian integer (u32: width 4, u64: width 8)
EncodeLE(n, width) ==
    IF width = 0 THEN <<>> ELSE <<n % 256>> \o EncodeLE(n \div 256, width - 1)

RECURSIVE DecodeLE(_)
DecodeLE(bytes) ==
    IF bytes = <<>> THEN 0 ELSE Head(bytes) + 256 * DecodeLE(Tail(bytes))

Decode_uint(input, width) ==
    IF Len(input) < width THEN Fail
    ELSE Ok(DecodeLE(Take(input, width)), Drop(input, width))

\* Compact<u32>: the length prefix of every Vec
Encode_Compact(n) ==
    IF n < 64 THEN <<4 * n>>
    ELSE IF n < 16384 THEN EncodeLE(4 * n + 1, 2)
    ELSE EncodeLE(4 * n + 2, 4)

Decode_Compact(input) ==
    IF input = <<>> THEN Fail
    ELSE LET prefix == Head(input) IN
         CASE prefix % 4 = 0 -> Ok(prefix \div 4, Tail(input))
           [] prefix % 4 = 1 ->
                IF Len(input) < 2 THEN Fail
                ELSE LET x == DecodeLE(Take(input, 2)) \div 4 IN
                     IF x > 63 THEN Ok(x, Drop(input, 2)) ELSE Fail
           [] prefix % 4 = 2 ->
                IF Len(input) < 4 THEN Fail
                ELSE LET x == DecodeLE(Take(input, 4)) \div 4 IN
                     IF x > 16383 THEN Ok(x, Drop(input, 4)) ELSE Fail
           [] OTHER ->
                \* big-integer mode: a u32 above 2^30 - 1 in four more bytes
                IF prefix \div 4 # 0 \/ Len(input) < 5 THEN Fail
                ELSE IF input[5] >= 64 THEN Ok(DecodeLE(SubSeq(input, 2, 5)), Drop(input, 5))
                ELSE Fail

\* Vec<u8>
Encode_bytes(b) == Encode_Compact(Len(b)) \o b

Decode_bytes(input) ==
    AndThen(Decode_Compact(input), LAMBDA n :
        IF Len(n.rest) < n.val THEN Fail
        ELSE Ok(Take(n.rest, n.val), Drop(n.rest, n.val)))

\* struct TimestampedMsg { at: u64, payload: Vec<u8> }
Encode_TimestampedMsg(m) == EncodeLE(m.at, 8) \o Encode_bytes(m.payload)

Decode_TimestampedMsg(input) ==
    AndThen(Decode_uint(input, 8), LAMBDA at :
    AndThen(Decode_bytes(at.rest), LAMBDA payload :
        Ok([at |-> at.val, payload |-> payload.val], payload.rest)))

\* struct TargetedMsg { recepient: u32, msg: TimestampedMsg }
Encode_TargetedMsg(m) == EncodeLE(m.recepient, 4) \o Encode_TimestampedMsg(m.msg)

Decode_TargetedMsg(input) ==
    AndThen(Decode_uint(input, 4), LAMBDA recepient :
    AndThen(Decode_TimestampedMsg(recepient.rest), LAMBDA msg :
        Ok([recepient |-> recepient.val, msg |-> msg.val], msg.rest)))

RECURSIVE Concat(_)
Concat(blobs) == IF blobs = <<>> THEN <<>> ELSE Head(blobs) \o Concat(Tail(blobs))

\* Vec<TimestampedMsg>
Encode_TimestampedMsgs(v) ==
    Encode_Compact(Len(v)) \o Concat([i \in 1..Len(v) |-> Encode_TimestampedMsg(v[i])])

RECURSIVE Decode_TimestampedMsg_items(_, _, _)
Decode_TimestampedMsg_items(input, n, acc) ==
    IF n = 0 THEN Ok(acc, input)
    ELSE AndThen(Decode_TimestampedMsg(input), LAMBDA item :
             Decode_TimestampedMsg_items(item.rest, n - 1, Append(acc, item.val)))

Decode_TimestampedMsgs(input) ==
    AndThen(Decode_Compact(input), LAMBDA n :
        Decode_TimestampedMsg_items(n.rest, n.val, <<>>))

\* Vec<TargetedMsg>
Encode_TargetedMsgs(v) ==
    Encode_Compact(Len(v)) \o Concat([i \in 1..Len(v) |-> Encode_TargetedMsg(v[i])])

RECURSIVE Decode_TargetedMsg_items(_, _, _)
Decode_TargetedMsg_items(input, n, acc) ==
    IF n = 0 THEN Ok(acc, input)
    ELSE AndThen(Decode_TargetedMsg(input), LAMBDA item :
             Decode_TargetedMsg_items(item.rest, n - 1, Append(acc, item.val)))

Decode_TargetedMsgs(input) ==
    AndThen(Decode_Compact(input), LAMBDA n :
        Decode_TargetedMsg_items(n.rest, n.val, <<>>))

\* Vec<(u32, Vec<u8>)>: the reply of poll, a sequence of <<sender, blob>>
Encode_InboundMsgs(v) ==
    Encode_Compact(Len(v))
        \o Concat([i \in 1..Len(v) |-> EncodeLE(v[i][1], 4) \o Encode_bytes(v[i][2])])

RECURSIVE Decode_InboundMsg_items(_, _, _)
Decode_InboundMsg_items(input, n, acc) ==
    IF n = 0 THEN Ok(acc, input)
    ELSE AndThen(Decode_uint(input, 4), LAMBDA sender :
         AndThen(Decode_bytes(sender.rest), LAMBDA blob :
             Decode_InboundMsg_items(blob.rest, n - 1, Append(acc, <<sender.val, blob.val>>))))

Decode_InboundMsgs(input) ==
    AndThen(Decode_Compact(input), LAMBDA n :
        Decode_InboundMsg_items(n.rest, n.val, <<>>))

\* enum Req { Enqueue { recepient: u32, payload: Vec<u8> }, Poll, FanOut }
Encode_Req(req) ==
    CASE req.tag = "Enqueue" -> <<0>> \o EncodeLE(req.recepient, 4) \o Encode_bytes(req.payload)
      [] req.tag = "Poll" -> <<1>>
      [] req.tag = "FanOut" -> <<2>>

Decode_Req(input) ==
    IF input = <<>> THEN Fail
    ELSE CASE Head(input) = 0 ->
                AndThen(Decode_uint(Tail(input), 4), LAMBDA recepient :
                AndThen(Decode_bytes(recepient.rest), LAMBDA payload :
                    Ok([tag |-> "Enqueue", recepient |-> recepient.val,
                        payload |-> payload.val], payload.rest)))
           [] Head(input) = 1 -> Ok([tag |-> "Poll"], Tail(input))
           [] Head(input) = 2 -> Ok([tag |-> "FanOut"], Tail(input))
           [] OTHER -> Fail

(***************************************************************************)
(* std::collections::HashMap                                               *)
(***************************************************************************)
EmptyMap == <<>>

\* HashMap::insert
MapInsert(m, k, v) == [x \in (DOMAIN m) \cup {k} |-> IF x = k THEN v ELSE m[x]]

\* The keys in iteration order: the order is not specified, `order` lists
\* every possible key in the order this map happens to yield them.
MapIter(m, order) == SelectSeq(order, LAMBDA k : k \in DOMAIN m)

(***************************************************************************)
(* wasmi MemoryRef: bounds-checked access to the guest's linear memory     *)
(***************************************************************************)
\* MemoryInstance::get(offset, size)
MemoryGet(memory, offset, size) ==
    IF offset + size > Len(memory) THEN Fail
    ELSE Ok(SubSeq(memory, offset + 1, offset + size), <<>>)

\* MemoryInstance::set(offset, value)
MemorySet(memory, offset, value) ==
    IF offset + Len(value) > Len(memory) THEN Fail
    ELSE Ok([i \in 1..Len(memory) |->
                IF i > offset /\ i <= offset + Len(value) THEN value[i - offset]
                ELSE memory[i]], <<>>)

(***************************************************************************)
(* SpreeModuleHostEnv: the host functions a SPREE module may import.       *)
(* An environment E holds the scratch buffer, the guest's linear memory,   *)
(* the borrowed accumulator and storage, whether the guest has trapped,    *)
(* the value the last call returned and the log of the host calls made.    *)
(***************************************************************************)
None == "None"

SpreeModuleHostEnv_new(blob, memory, acc, storage) ==
    [scratch_buf |-> blob, linear_memory |-> memory, acc |-> acc,
     storage |-> storage, trap |-> FALSE, ret |-> None, calls |-> <<>>]

HostReturn(E, v, call) ==
    [E EXCEPT !.ret = v, !.calls = Append(@, call @@ [trapped |-> FALSE, ret |-> v])]

HostTrap(E, call) ==
    [E EXCEPT !.trap = TRUE, !.ret = None, !.calls = Append(@, call @@ [trapped |-> TRUE])]

\* a Rust panic inside the guest: the wasm traps
Panic(E) == [E EXCEPT !.trap = TRUE, !.ret = None]

\* the guest runs on with F from the environment a call left, unless the
\* call trapped
Then(E1, F(_)) == IF E1.trap THEN E1 ELSE F(E1)

SCRATCH_BUF_SIZE(E) ==
    IF E.trap THEN E
    ELSE HostReturn(E, Len(E.scratch_buf), [fn |-> "scratch_buf_size"])

SCRATCH_BUF_READ(E, out_ptr) ==
    IF E.trap THEN E
    ELSE LET call == [fn |-> "scratch_buf_read", out_ptr |-> out_ptr]
             set == MemorySet(E.linear_memory, out_ptr, E.scratch_buf) IN
         IF ~set.ok THEN HostTrap(E, call)
         ELSE HostReturn([E EXCEPT !.linear_memory = set.val], None, call)

\* mutant: an occupied slot keeps the message it holds
SEND_keep_previous(E, recepient, blob_ptr, blob_len) ==
    IF E.trap THEN E
    ELSE LET call == [fn |-> "send", recepient |-> recepient,
                      blob_ptr |-> blob_ptr, blob_len |-> blob_len]
             blob_buf == MemoryGet(E.linear_memory, blob_ptr, blob_len) IN
         IF ~blob_buf.ok THEN HostTrap(E, call)
         ELSE LET previous == recepient \in DOMAIN E.acc.outbound
                  E1 == IF previous THEN E
                        ELSE [E EXCEPT !.acc.outbound = MapInsert(@, recepient, blob_buf.val)] IN
              HostReturn(E1, IF previous THEN 1 ELSE 0, call @@ [blob |-> blob_buf.val])

\* mutant: the accumulator holds the message of the latest send only
SEND_latest_only(E, recepient, blob_ptr, blob_len) ==
    IF E.trap THEN E
    ELSE LET call == [fn |-> "send", recepient |-> recepient,
                      blob_ptr |-> blob_ptr, blob_len |-> blob_len]
             blob_buf == MemoryGet(E.linear_memory, blob_ptr, blob_len) IN
         IF ~blob_buf.ok THEN HostTrap(E, call)
         ELSE LET previous == recepient \in DOMAIN E.acc.outbound
                  E1 == [E EXCEPT !.acc.outbound = MapInsert(EmptyMap, recepient, blob_buf.val)] IN
              HostReturn(E1, IF previous THEN 1 ELSE 0, call @@ [blob |-> blob_buf.val])

SEND(E, recepient, blob_ptr, blob_len) ==
    IF E.trap THEN E
    ELSE LET call == [fn |-> "send", recepient |-> recepient,
                      blob_ptr |-> blob_ptr, blob_len |-> blob_len]
             blob_buf == MemoryGet(E.linear_memory, blob_ptr, blob_len) IN
         IF ~blob_buf.ok THEN HostTrap(E, call)
         ELSE LET previous == recepient \in DOMAIN E.acc.outbound
                  E1 == [E EXCEPT !.acc.outbound = MapInsert(@, recepient, blob_buf.val)] IN
              HostReturn(E1, IF previous THEN 1 ELSE 0, call @@ [blob |-> blob_buf.val])

\* mutant: the encoded inbound messages are appended to the scratch buffer
POLL_appended(E, order) ==
    IF E.trap THEN E
    ELSE LET keys == MapIter(E.acc.inbound, order)
             collected == [i \in 1..Len(keys) |-> <<keys[i], E.acc.inbound[keys[i]]>>] IN
         HostReturn([E EXCEPT !.scratch_buf = @ \o Encode_InboundMsgs(collected)],
                    None, [fn |-> "poll"])

\* mutant: the inbound messages are taken out of the accumulator
POLL_drained(E, order) ==
    IF E.trap THEN E
    ELSE LET keys == MapIter(E.acc.inbound, order)
             collected == [i \in 1..Len(keys) |-> <<keys[i], E.acc.inbound[keys[i]]>>] IN
         HostReturn([E EXCEPT !.scratch_buf = Encode_InboundMsgs(collected),
                              !.acc.inbound = EmptyMap],
                    None, [fn |-> "poll"])

POLL(E, order) ==
    IF E.trap THEN E
    ELSE LET keys == MapIter(E.acc.inbound, order)
             collected == [i \in 1..Len(keys) |-> <<keys[i], E.acc.inbound[keys[i]]>>] IN
         HostReturn([E EXCEPT !.scratch_buf = Encode_InboundMsgs(collected)],
                    None, [fn |-> "poll"])

\* mutant: a key that is found leaves the scratch buffer as it was
STORAGE_READ_stale_scratch(E, key_ptr, key_len) ==
    IF E.trap THEN E
    ELSE LET call == [fn |-> "storage_read", key_ptr |-> key_ptr, key_len |-> key_len]
             key_buf == MemoryGet(E.linear_memory, key_ptr, key_len) IN
         IF ~key_buf.ok THEN HostTrap(E, call)
         ELSE HostReturn(E, IF key_buf.val \in DOMAIN E.storage THEN 0 ELSE 1,
                         call @@ [key |-> key_buf.val])

\* mutant: a key that is absent empties the scratch buffer
STORAGE_READ_absent_clears(E, key_ptr, key_len) ==
    IF E.trap THEN E
    ELSE LET call == [fn |-> "storage_read", key_ptr |-> key_ptr, key_len |-> key_len]
             key_buf == MemoryGet(E.linear_memory, key_ptr, key_len) IN
         IF ~key_buf.ok THEN HostTrap(E, call)
         ELSE IF key_buf.val \in DOMAIN E.storage
              THEN HostReturn([E EXCEPT !.scratch_buf = E.storage[key_buf.val]],
                              0, call @@ [key |-> key_buf.val])
              ELSE HostReturn([E EXCEPT !.scratch_buf = <<>>], 1, call @@ [key |-> key_buf.val])

STORAGE_READ(E, key_ptr, key_len) ==
    IF E.trap THEN E
    ELSE LET call == [fn |-> "storage_read", key_ptr |-> key_ptr, key_len |-> key_len]
             key_buf == MemoryGet(E.linear_memory, key_ptr, key_len) IN
         IF ~key_buf.ok THEN HostTrap(E, call)
         ELSE IF key_buf.val \in DOMAIN E.storage
              THEN HostReturn([E EXCEPT !.scratch_buf = E.storage[key_buf.val]],
                              0, call @@ [key |-> key_buf.val])
              ELSE HostReturn(E, 1, call @@ [key |-> key_buf.val])

\* mutant: the key is entered before the value is read from guest memory
STORAGE_WRITE_key_first(E, key_ptr, key_len, val_ptr, val_len) ==
    IF E.trap THEN E
    ELSE LET call == [fn |-> "storage_write", key_ptr |-> key_ptr, key_len |-> key_len,
                      val_ptr |-> val_ptr, val_len |-> val_len]
             key_buf == MemoryGet(E.linear_memory, key_ptr, key_len) IN
         IF ~key_buf.ok THEN HostTrap(E, call)
         ELSE LET val_buf == MemoryGet(E.linear_memory, val_ptr, val_len) IN
              IF ~val_buf.ok
              THEN HostTrap([E EXCEPT !.storage = MapInsert(@, key_buf.val, <<>>)], call)
              ELSE HostReturn([E EXCEPT !.storage = MapInsert(@, key_buf.val, val_buf.val)],
                              None, call @@ [key |-> key_buf.val, val |-> val_buf.val])

STORAGE_WRITE(E, key_ptr, key_len, val_ptr, val_len) ==
    IF E.trap THEN E
    ELSE LET call == [fn |-> "storage_write", key_ptr |-> key_ptr, key_len |-> key_len,
                      val_ptr |-> val_ptr, val_len |-> val_len]
             key_buf == MemoryGet(E.linear_memory, key_ptr, key_len) IN
         IF ~key_buf.ok THEN HostTrap(E, call)
         ELSE LET val_buf == MemoryGet(E.linear_memory, val_ptr, val_len) IN
              IF ~val_buf.ok THEN HostTrap(E, call)
              ELSE HostReturn([E EXCEPT !.storage = MapInsert(@, key_buf.val, val_buf.val)],
                              None, call @@ [key |-> key_buf.val, val |-> val_buf.val])

(***************************************************************************)
(* spree-lamport-clock/src/ext.rs: the guest's bindings to the host API.   *)
(* The guest lays the arguments of a call out in its linear memory and     *)
(* passes their addresses; the model's linear memory holds the buffers of  *)
(* the call in flight.  Each binding leaves its result in E.ret.           *)
(***************************************************************************)
\* Vec::with_capacity(size): a buffer of `size` bytes the host is to fill
Alloc(size) == [i \in 1..size |-> 0]

ext_scratch_buf_read(E) ==
    Then(SCRATCH_BUF_SIZE(E), LAMBDA E1 :
        LET size == E1.ret IN
        IF size = 0 THEN [E1 EXCEPT !.ret = <<>>]
        ELSE Then(SCRATCH_BUF_READ([E1 EXCEPT !.linear_memory = Alloc(size)], 0), LAMBDA E2 :
                 [E2 EXCEPT !.ret = Take(E2.linear_memory, size)]))

\* Option<Vec<u8>>: E.ret is [some |-> TRUE, val |-> bytes] or [some |-> FALSE]
ext_storage_read(E, key) ==
    Then(STORAGE_READ([E EXCEPT !.linear_memory = key], 0, Len(key)), LAMBDA E1 :
        IF E1.ret = 0
        THEN Then(ext_scratch_buf_read(E1), LAMBDA E2 :
                 [E2 EXCEPT !.ret = [some |-> TRUE, val |-> E2.ret]])
        ELSE [E1 EXCEPT !.ret = [some |-> FALSE]])

ext_storage_write(E, key, val) ==
    STORAGE_WRITE([E EXCEPT !.linear_memory = key \o val],
                  0, Len(key), Len(key), Len(val))

\* mutant: a non-zero status of `send` is taken for a failure
ext_send_checked(E, recepient, blob) ==
    Then(SEND([E EXCEPT !.linear_memory = blob], recepient, 0, Len(blob)), LAMBDA E1 :
        IF E1.ret # 0 THEN Panic(E1) ELSE [E1 EXCEPT !.ret = None])

\* the status `send` returns is dropped
ext_send(E, recepient, blob) ==
    Then(SEND([E EXCEPT !.linear_memory = blob], recepient, 0, Len(blob)), LAMBDA E1 :
        [E1 EXCEPT !.ret = None])

ext_poll(E, order) ==
    Then(ext_scratch_buf_read(POLL(E, order)), LAMBDA E1 :
        With(Decode_InboundMsgs(E1.ret), LAMBDA msgs :
            IF ~msgs.ok THEN Panic(E1) ELSE [E1 EXCEPT !.ret = msgs.val]))

(***************************************************************************)
(* spree-lamport-clock/src/storage.rs                                      *)
(***************************************************************************)
\* b":current_timestamp"
KEY_CURRENT_TIMESTAMP ==
    <<58, 99, 117, 114, 114, 101, 110, 116, 95, 116, 105, 109, 101, 115, 116, 97, 109, 112>>

\* b":stack"
KEY_QUEUE == <<58, 115, 116, 97, 99, 107>>

current_timestamp(E) ==
    Then(ext_storage_read(E, KEY_CURRENT_TIMESTAMP), LAMBDA E1 :
        IF ~E1.ret.some THEN [E1 EXCEPT !.ret = 0]
        ELSE With(Decode_uint(E1.ret.val, 8), LAMBDA raw_timestamp :
                 [E1 EXCEPT !.ret = IF raw_timestamp.ok THEN raw_timestamp.val ELSE 0]))

set_current_timestamp(E, timestamp) ==
    ext_storage_write(E, KEY_CURRENT_TIMESTAMP, EncodeLE(timestamp, 8))

\* mutant: the incremented timestamp is returned but the old one is persisted
next_timestamp_not_persisted(E) ==
    Then(current_timestamp(E), LAMBDA E1 :
        LET next == E1.ret + 1 IN
        Then(set_current_timestamp(E1, E1.ret), LAMBDA E2 : [E2 EXCEPT !.ret = next]))

next_timestamp(E) ==
    Then(current_timestamp(E), LAMBDA E1 :
        LET next == E1.ret + 1 IN
        Then(set_current_timestamp(E1, next), LAMBDA E2 : [E2 EXCEPT !.ret = next]))

read_queue(E) ==
    Then(ext_storage_read(E, KEY_QUEUE), LAMBDA E1 :
        IF ~E1.ret.some THEN [E1 EXCEPT !.ret = <<>>]
        ELSE With(Decode_TargetedMsgs(E1.ret.val), LAMBDA raw_queue :
                 [E1 EXCEPT !.ret = IF raw_queue.ok THEN raw_queue.val ELSE <<>>]))

\* mutant: an empty queue is stored by removing its key
write_queue_removes_empty(E, queue) ==
    IF queue = <<>>
    THEN [E EXCEPT !.storage = [k \in DOMAIN @ \ {KEY_QUEUE} |-> @[k]], !.ret = None]
    ELSE ext_storage_write(E, KEY_QUEUE, Encode_TargetedMsgs(queue))

write_queue(E, queue) ==
    ext_storage_write(E, KEY_QUEUE, Encode_TargetedMsgs(queue))

enqueue_msg(E, msg) ==
    Then(read_queue(E), LAMBDA E1 : write_queue(E1, Append(E1.ret, msg)))

\* mutant: the queue is read and left in storage
take_queue_not_cleared(E) ==
    read_queue(E)

take_queue(E) ==
    Then(read_queue(E), LAMBDA E1 :
        LET msgs == E1.ret IN
        Then(write_queue(E1, <<>>), LAMBDA E2 : [E2 EXCEPT !.ret = msgs]))

(***************************************************************************)
(* spree-lamport-clock/src/lib.rs: the `handle` entry point                *)
(***************************************************************************)
RECURSIVE GroupByRecepient(_, _)
RECURSIVE GroupByRecepient_prepend(_, _)
\* mutant: each message is put at the front of its recipient's group
GroupByRecepient_prepend(msgs, acc) ==
    IF msgs = <<>> THEN acc
    ELSE LET recepient == Head(msgs).recepient
             entry == IF recepient \in DOMAIN acc THEN acc[recepient] ELSE <<>> IN
         GroupByRecepient_prepend(Tail(msgs), MapInsert(acc, recepient, <<Head(msgs).msg>> \o entry))

\* the fold of Req::FanOut: acc.entry(recepient).or_insert_with(Vec::new).push(msg)
GroupByRecepient(msgs, acc) ==
    IF msgs = <<>> THEN acc
    ELSE LET recepient == Head(msgs).recepient
             entry == IF recepient \in DOMAIN acc THEN acc[recepient] ELSE <<>> IN
         GroupByRecepient(Tail(msgs), MapInsert(acc, recepient, Append(entry, Head(msgs).msg)))

RECURSIVE SendGroups(_, _, _)
RECURSIVE SendGroups_repeated(_, _, _)
\* mutant: every group is sent a second time
SendGroups_repeated(E, keys, msg_by_recepient) ==
    IF keys = <<>> \/ E.trap THEN E
    ELSE With(Encode_TimestampedMsgs(msg_by_recepient[Head(keys)]), LAMBDA blob :
            SendGroups_repeated(ext_send(ext_send(E, Head(keys), blob), Head(keys), blob),
                                Tail(keys), msg_by_recepient))

\* for (recepient, msgs) in msg_by_recepient { ext::send(recepient, &msgs.encode()) }
SendGroups(E, keys, msg_by_recepient) ==
    IF keys = <<>> \/ E.trap THEN E
    ELSE SendGroups(ext_send(E, Head(keys), Encode_TimestampedMsgs(msg_by_recepient[Head(keys)])),
                    Tail(keys), msg_by_recepient)

handle_Enqueue(E, recepient, payload) ==
    Then(next_timestamp(E), LAMBDA E1 :
        enqueue_msg(E1, [recepient |-> recepient,
                         msg |-> [at |-> E1.ret, payload |-> payload]]))

handle_Poll(E, order) ==
    Then(ext_poll(E, order), LAMBDA E1 :
        IF \E i \in 1..Len(E1.ret) : ~Decode_TimestampedMsgs(E1.ret[i][2]).ok
        THEN Panic(E1)
        ELSE [E1 EXCEPT !.ret = None])

\* mutant: a send is issued to every recipient of `order`, an empty group
\* to those that have no message
handle_FanOut_every_recepient(E, order) ==
    Then(take_queue(E), LAMBDA E1 :
        With(GroupByRecepient(E1.ret, EmptyMap), LAMBDA grouped :
            SendGroups(E1, order, [r \in 0..(Len(order) - 1) |->
                                      IF r \in DOMAIN grouped THEN grouped[r] ELSE <<>>])))

\* mutant: the drain starts the clock anew
handle_FanOut_reset_timestamp(E, order) ==
    Then(take_queue(E), LAMBDA E1 :
        With(GroupByRecepient(E1.ret, EmptyMap), LAMBDA msg_by_recepient :
            Then(SendGroups(E1, MapIter(msg_by_recepient, order), msg_by_recepient), LAMBDA E2 :
                set_current_timestamp(E2, 0))))

handle_FanOut(E, order) ==
    Then(take_queue(E), LAMBDA E1 :
        With(GroupByRecepient(E1.ret, EmptyMap), LAMBDA msg_by_recepient :
            SendGroups(E1, MapIter(msg_by_recepient, order), msg_by_recepient)))

\* mutant: a blob that is no request is taken for a FanOut
handle_lenient(E, order) ==
    Then(ext_scratch_buf_read(E), LAMBDA E1 :
        With(Decode_Req(E1.ret), LAMBDA req :
            IF ~req.ok THEN handle_FanOut(E1, order)
            ELSE CASE req.val.tag = "Enqueue" ->
                        handle_Enqueue(E1, req.val.recepient, req.val.payload)
                   [] req.val.tag = "Poll" -> handle_Poll(E1, order)
                   [] req.val.tag = "FanOut" -> handle_FanOut(E1, order)))

\* `order` is the order in which the hash maps of this invocation iterate
handle(E, order) ==
    Then(ext_scratch_buf_read(E), LAMBDA E1 :
        With(Decode_Req(E1.ret), LAMBDA req :
            IF ~req.ok THEN Panic(E1)
            ELSE CASE req.val.tag = "Enqueue" ->
                        handle_Enqueue(E1, req.val.recepient, req.val.payload)
                   [] req.val.tag = "Poll" -> handle_Poll(E1, order)
                   [] req.val.tag = "FanOut" -> handle_FanOut(E1, order)))

(***************************************************************************)
(* Wasm binaries.  A binary is described by what the host looks at: whether*)
(* the file loads, the functions it imports, whether it exports a linear   *)
(* memory, whether it has a start function, the code it runs and the       *)
(* initial contents of its memory.                                         *)
(***************************************************************************)
Sig(params, result) == [params |-> params, result |-> result]

Import(module, field, sig) == [module |-> module, field |-> field, sig |-> sig]

\* the imports of spree-lamport-clock/src/ext.rs (mod ffi), usize = pointer = i32
LamportClockImports ==
    { Import("env", "scratch_buf_size", Sig(<<>>, "I32")),
      Import("env", "scratch_buf_read", Sig(<<"I32">>, None)),
      Import("env", "send", Sig(<<"I32", "I32", "I32">>, "I32")),
      Import("env", "poll", Sig(<<>>, None)),
      Import("env", "storage_read", Sig(<<"I32", "I32">>, "I32")),
      Import("env", "storage_write", Sig(<<"I32", "I32", "I32", "I32">>, None)) }

\* `data` is the linear memory of a fresh instance.  The lamport clock's own
\* memory is not modelled: its bindings lay out each call's buffers afresh.
SPREE_LAMPORT_CLOCK_WASM ==
    [readable |-> TRUE, imports |-> LamportClockImports, memory |-> TRUE, start |-> FALSE,
     code |-> "lamport_clock", data |-> <<>>]

\* a SPREE module whose `handle` issues any host calls
FreeSpreeWasm ==
    [readable |-> TRUE, imports |-> LamportClockImports, memory |-> TRUE, start |-> FALSE,
     code |-> "free", data |-> <<3, 4, 5, 6, 7, 8, 9, 10>>]

\* binaries a SpreeModule may be constructed with besides the lamport clock
BrokenSpreeWasm ==
    { [SPREE_LAMPORT_CLOCK_WASM EXCEPT !.readable = FALSE],
      [SPREE_LAMPORT_CLOCK_WASM EXCEPT
          !.imports = @ \cup {Import("env", "storage_clear", Sig(<<"I32", "I32">>, None))}],
      [SPREE_LAMPORT_CLOCK_WASM EXCEPT
          !.imports = (@ \ {Import("env", "send", Sig(<<"I32", "I32", "I32">>, "I32"))})
                         \cup {Import("env", "send", Sig(<<"I32", "I32", "I32">>, None))}],
      [SPREE_LAMPORT_CLOCK_WASM EXCEPT
          !.imports = @ \cup {Import("spree", "poll", Sig(<<>>, None))}],
      [SPREE_LAMPORT_CLOCK_WASM EXCEPT !.memory = FALSE],
      [SPREE_LAMPORT_CLOCK_WASM EXCEPT !.start = TRUE] }

(***************************************************************************)
(* polkadot-re-mock/src/spree.rs: resolver, instantiation, SpreeModule     *)
(***************************************************************************)
SCRATCH_BUF_SIZE_index == 1
SCRATCH_BUF_READ_index == 2
SEND_index == 3
POLL_index == 4
STORAGE_READ_index == 5
STORAGE_WRITE_index == 6

\* mutant: the requested signature is not compared with the declared one
SpreeModuleImportResolver_resolve_func_any_signature(field_name, req_signature) ==
    LET known == [scratch_buf_size |-> SCRATCH_BUF_SIZE_index,
                  scratch_buf_read |-> SCRATCH_BUF_READ_index,
                  send |-> SEND_index,
                  poll |-> POLL_index,
                  storage_read |-> STORAGE_READ_index,
                  storage_write |-> STORAGE_WRITE_index] IN
    IF field_name \notin DOMAIN known THEN Fail
    ELSE Ok(known[field_name], <<>>)

\* SpreeModuleImportResolver::resolve_func
SpreeModuleImportResolver_resolve_func(field_name, req_signature) ==
    LET known == [scratch_buf_size |-> <<SCRATCH_BUF_SIZE_index, Sig(<<>>, "I32")>>,
                  scratch_buf_read |-> <<SCRATCH_BUF_READ_index, Sig(<<"I32">>, None)>>,
                  send |-> <<SEND_index, Sig(<<"I32", "I32", "I32">>, "I32")>>,
                  poll |-> <<POLL_index, Sig(<<>>, None)>>,
                  storage_read |-> <<STORAGE_READ_index, Sig(<<"I32", "I32">>, "I32")>>,
                  storage_write |-> <<STORAGE_WRITE_index,
                                      Sig(<<"I32", "I32", "I32", "I32">>, None)>>] IN
    IF field_name \notin DOMAIN known THEN Fail
    ELSE IF req_signature # known[field_name][2] THEN Fail
    ELSE Ok(known[field_name][1], <<>>)

\* ImportsBuilder with the resolver pushed for "env": any other module name is
\* unresolved
SpreeImports_resolve(import) ==
    IF import.module # "env" THEN Fail
    ELSE SpreeModuleImportResolver_resolve_func(import.field, import.sig)

\* the instance a binary instantiates to; its linear memory lives as long as it
Instance(wasm) == [some |-> TRUE, memory |-> wasm.data]

\* Option<ModuleRef>::None
NoInstance == [some |-> FALSE]

\* mutant: the binary is instantiated on every call
ensure_instance_reloaded(wasm, instance_cache) ==
    IF ~wasm.readable
    THEN [result |-> "Err", error |-> "Io", cache |-> instance_cache]
    ELSE IF \E import \in wasm.imports : ~SpreeImports_resolve(import).ok
    THEN [result |-> "Err", error |-> "Instantiation", cache |-> instance_cache]
    ELSE IF wasm.start
    THEN [result |-> "Panic", error |-> None, cache |-> instance_cache]
    ELSE [result |-> "Ok", error |-> None, cache |-> Instance(wasm)]

\* ensure_instance: result "Ok", "Err" (with the error) or "Panic", and the cache
ensure_instance(wasm, instance_cache) ==
    IF instance_cache.some
    THEN [result |-> "Ok", error |-> None, cache |-> instance_cache]
    ELSE IF ~wasm.readable
    THEN [result |-> "Err", error |-> "Io", cache |-> instance_cache]
    ELSE IF \E import \in wasm.imports : ~SpreeImports_resolve(import).ok
    THEN [result |-> "Err", error |-> "Instantiation", cache |-> instance_cache]
    ELSE IF wasm.start
    THEN [result |-> "Panic", error |-> None, cache |-> instance_cache]
    ELSE [result |-> "Ok", error |-> None, cache |-> Instance(wasm)]

\* SpreeIcmpAccumulator::with_inbound_msgs
SpreeIcmpAccumulator_with_inbound_msgs(inbound) ==
    [inbound |-> inbound, outbound |-> EmptyMap]

\* SpreeModule::new
SpreeModule_new(wasm, acc) ==
    [wasm |-> wasm, acc |-> acc, instance |-> NoInstance, storage |-> EmptyMap]

\* RuntimeValue::I32(time_slice as i32), read back by the guest as usize;
\* the values of the model are below 2^31, where the casts keep the value
RuntimeValue_I32(v) == [ty |-> "I32", val |-> v]

NotEntered == [entered |-> FALSE, scratch_buf |-> <<>>, args |-> <<>>, calls |-> <<>>]

\* mutant: every invocation starts with an empty outbound accumulator
SpreeModule_enter_outbound_drained(self, blob) ==
    With(ensure_instance(self.wasm, self.instance), LAMBDA instance :
        LET cached == [self EXCEPT !.instance = instance.cache, !.acc.outbound = EmptyMap] IN
        IF instance.result # "Ok"
        THEN [self |-> cached, result |-> instance.result, error |-> instance.error]
        ELSE IF ~self.wasm.memory
        THEN [self |-> cached, result |-> "Err", error |-> "NoMemoryExport"]
        ELSE [self |-> cached, result |-> "Ok", error |-> None,
              env |-> SpreeModuleHostEnv_new(blob, instance.cache.memory, cached.acc, self.storage)])

\* SpreeModule::invoke up to the call of the guest's `handle`: the instance
\* is ensured and the host environment is set up around the blob
SpreeModule_enter(self, blob) ==
    With(ensure_instance(self.wasm, self.instance), LAMBDA instance :
        LET cached == [self EXCEPT !.instance = instance.cache] IN
        IF instance.result # "Ok"
        THEN [self |-> cached, result |-> instance.result, error |-> instance.error]
        ELSE IF ~self.wasm.memory
        THEN [self |-> cached, result |-> "Err", error |-> "NoMemoryExport"]
        ELSE [self |-> cached, result |-> "Ok", error |-> None,
              env |-> SpreeModuleHostEnv_new(blob, instance.cache.memory, self.acc, self.storage)])

\* SpreeModule::invoke of a module that runs the lamport clock.  Yields the
\* module afterwards, the result, and what the guest was entered with.
SpreeModule_invoke(self, time_slice, blob, order) ==
    With(SpreeModule_enter(self, blob), LAMBDA e :
        IF e.result # "Ok"
        THEN [self |-> e.self, result |-> e.result, error |-> e.error, guest |-> NotEntered]
        ELSE With(handle(e.env, order), LAMBDA done :
                 [self |-> [e.self EXCEPT !.acc = done.acc, !.storage = done.storage],
                  result |-> IF done.trap THEN "Err" ELSE "Ok",
                  error |-> IF done.trap THEN "Trap" ELSE None,
                  guest |-> [entered |-> TRUE, scratch_buf |-> e.env.scratch_buf,
                             args |-> <<RuntimeValue_I32(time_slice)>>,
                             calls |-> done.calls]]))

\* SpreeModule::outbound_messages
outbound_messages(self) == self.acc.outbound

(***************************************************************************)
(* polkadot-re-mock/src/parachain.rs                                       *)
(***************************************************************************)
CALL_SPREE_index == 0

\* ParachainImportResolver::resolve_func
ParachainImportResolver_resolve_func(field_name, req_signature) ==
    IF field_name # "call_spree" THEN Fail
    ELSE IF req_signature # Sig(<<"I32", "I32", "I32", "I32">>, None) THEN Fail
    ELSE Ok(CALL_SPREE_index, <<>>)

ParachainImports_resolve(import) ==
    IF import.module # "env" THEN Fail
    ELSE ParachainImportResolver_resolve_func(import.field, import.sig)

\* instantiate_parachain
instantiate_parachain(parachain_binary) ==
    IF ~parachain_binary.readable THEN [result |-> "Err", error |-> "Io"]
    ELSE IF \E import \in parachain_binary.imports : ~ParachainImports_resolve(import).ok
    THEN [result |-> "Err", error |-> "Instantiation"]
    ELSE IF parachain_binary.start THEN [result |-> "Panic", error |-> None]
    ELSE [result |-> "Ok", error |-> None]

\* mutant: the module invoked is always the first one, and the time slice
\* handed on is the blob's length
CALL_SPREE_first_module(linear_memory, spree_modules, spree_handle, time_slice, blob_ptr, blob_len, order) ==
    LET blob_buf == MemoryGet(linear_memory, blob_ptr, blob_len) IN
    IF ~blob_buf.ok
    THEN [spree_modules |-> spree_modules, result |-> "Err", error |-> "Memory",
          invoked |-> <<>>, guest |-> NotEntered]
    ELSE IF spree_handle \notin DOMAIN spree_modules
    THEN [spree_modules |-> spree_modules, result |-> "Err", error |-> "HandleNotFound",
          invoked |-> <<>>, guest |-> NotEntered]
    ELSE With(SpreeModule_invoke(spree_modules[0], blob_len, blob_buf.val, order), LAMBDA r :
             [spree_modules |-> [spree_modules EXCEPT ![0] = r.self],
              result |-> r.result, error |-> r.error,
              invoked |-> <<0>>, guest |-> r.guest])

\* mutant: a handle beyond the registered modules falls back to the last one
CALL_SPREE_clamped(linear_memory, spree_modules, spree_handle, time_slice, blob_ptr, blob_len, order) ==
    LET blob_buf == MemoryGet(linear_memory, blob_ptr, blob_len)
        clamped == IF spree_handle \in DOMAIN spree_modules THEN spree_handle ELSE 1 IN
    IF ~blob_buf.ok
    THEN [spree_modules |-> spree_modules, result |-> "Err", error |-> "Memory",
          invoked |-> <<>>, guest |-> NotEntered]
    ELSE With(SpreeModule_invoke(spree_modules[clamped], time_slice, blob_buf.val, order), LAMBDA r :
             [spree_modules |-> [spree_modules EXCEPT ![clamped] = r.self],
              result |-> r.result, error |-> r.error,
              invoked |-> <<clamped>>, guest |-> r.guest])

\* mutant: every module runs on the storage of the first one
CALL_SPREE_shared_storage(linear_memory, spree_modules, spree_handle, time_slice, blob_ptr, blob_len, order) ==
    LET blob_buf == MemoryGet(linear_memory, blob_ptr, blob_len) IN
    IF ~blob_buf.ok
    THEN [spree_modules |-> spree_modules, result |-> "Err", error |-> "Memory",
          invoked |-> <<>>, guest |-> NotEntered]
    ELSE IF spree_handle \notin DOMAIN spree_modules
    THEN [spree_modules |-> spree_modules, result |-> "Err", error |-> "HandleNotFound",
          invoked |-> <<>>, guest |-> NotEntered]
    ELSE With(SpreeModule_invoke([spree_modules[spree_handle] EXCEPT !.storage = spree_modules[0].storage],
                                 time_slice, blob_buf.val, order), LAMBDA r :
             [spree_modules |-> [spree_modules EXCEPT ![spree_handle] = r.self],
              result |-> r.result, error |-> r.error,
              invoked |-> <<spree_handle>>, guest |-> r.guest])

\* ParachainHostEnv::invoke_index, fn_index::CALL_SPREE.  Yields the modules
\* afterwards, the result of the host call, and the invocations it made.
CALL_SPREE(linear_memory, spree_modules, spree_handle, time_slice, blob_ptr, blob_len, order) ==
    LET blob_buf == MemoryGet(linear_memory, blob_ptr, blob_len) IN
    IF ~blob_buf.ok
    THEN [spree_modules |-> spree_modules, result |-> "Err", error |-> "Memory",
          invoked |-> <<>>, guest |-> NotEntered]
    ELSE IF spree_handle \notin DOMAIN spree_modules
    THEN [spree_modules |-> spree_modules, result |-> "Err", error |-> "HandleNotFound",
          invoked |-> <<>>, guest |-> NotEntered]
    ELSE With(SpreeModule_invoke(spree_modules[spree_handle], time_slice, blob_buf.val, order), LAMBDA r :
             [spree_modules |-> [spree_modules EXCEPT ![spree_handle] = r.self],
              result |-> r.result, error |-> r.error,
              invoked |-> <<spree_handle>>, guest |-> r.guest])

(***************************************************************************)
(* Parachain binaries and the requests their guest code issues             *)
(***************************************************************************)
foo == <<102, 111, 111>>

bar == <<98, 97, 114>>

Enqueue(recepient, payload) ==
    [tag |-> "Enqueue", recepient |-> recepient, payload |-> payload]

Poll == [tag |-> "Poll"]

FanOut == [tag |-> "FanOut"]

\* the import of dummy-parachain/src/ext.rs (mod ffi)
CallSpreeImport == Import("env", "call_spree", Sig(<<"I32", "I32", "I32", "I32">>, None))

\* dummy-parachain: validate_block issues Poll, Enqueue{recepient, payload}, FanOut,
\* each to handle 0 with time slice 1337
DummyParachain(recepient, payload) ==
    [readable |-> TRUE, imports |-> {CallSpreeImport}, memory |-> TRUE, start |-> FALSE,
     code |-> "dummy", time_slice |-> 1337,
     program |-> <<Poll, Enqueue(recepient, payload), FanOut>>]

\* dummy-parachain as built: recepient 1, payload b"foo"
PARACHAIN_WASM == DummyParachain(1, foo)

\* a parachain whose validate_block issues any calls, with one time slice
FreeParachain(time_slice) ==
    [readable |-> TRUE, imports |-> {CallSpreeImport}, memory |-> TRUE, start |-> FALSE,
     code |-> "free", time_slice |-> time_slice, program |-> <<>>]

\* binaries that fail to instantiate, or lack the memory export
BrokenParachains ==
    { [PARACHAIN_WASM EXCEPT !.readable = FALSE],
      [PARACHAIN_WASM EXCEPT !.imports = {Import("env", "call_spree", Sig(<<"I32", "I32">>, None))}],
      [PARACHAIN_WASM EXCEPT !.imports = @ \cup {Import("env", "call_relay", Sig(<<>>, None))}],
      [PARACHAIN_WASM EXCEPT !.memory = FALSE],
      [PARACHAIN_WASM EXCEPT !.start = TRUE] }

\* call_lamport_clock of dummy-parachain: the encoded request in guest memory
call_lamport_clock(time_slice, req) ==
    [spree_handle |-> 0, time_slice |-> time_slice, memory |-> Encode_Req(req),
     blob_ptr |-> 0, blob_len |-> Len(Encode_Req(req))]

\* requests the free parachain issues
FreeReqs == { Enqueue(1, foo), Enqueue(0, bar), Enqueue(1, <<7>>), Poll, FanOut }

\* the registered modules are handles 0 and 1; 2 is not registered
Handles == {0, 1}

FreeHandles == Handles \cup {2}

\* blobs of the free parachain: each request encoded, and ranges of guest
\* memory that are cut short, empty, or reach beyond the memory
FreeBlobs ==
    { [memory |-> Encode_Req(req), blob_ptr |-> 0, blob_len |-> Len(Encode_Req(req))]
         : req \in FreeReqs }
    \cup { [memory |-> Encode_Req(Enqueue(1, foo)), blob_ptr |-> b[1], blob_len |-> b[2]]
         : b \in { <<0, 0>>, <<0, 8>>, <<1, 9>>, <<10, 0>> } }

Orders == { <<0, 1>>, <<1, 0>> }

(***************************************************************************)
(* State                                                                   *)
(***************************************************************************)
VARIABLES
    spree_modules,  \* the SpreeModules registered with validate_block, by handle
    vb,             \* validate_block: its state, the parachain binary, calls made
    env,            \* the SpreeModuleHostEnv of an invocation in progress
    last            \* the last operation and what it did

vars == <<spree_modules, vb, env, last>>

NoEnv == [active |-> FALSE]

\* the timestamp a module has persisted
TimestampOf(module) ==
    IF KEY_CURRENT_TIMESTAMP \in DOMAIN module.storage
    THEN DecodeLE(module.storage[KEY_CURRENT_TIMESTAMP])
    ELSE 0

\* the queue a module has persisted
QueueOf(module) ==
    IF KEY_QUEUE \in DOMAIN module.storage
    THEN Decode_TargetedMsgs(module.storage[KEY_QUEUE]).val
    ELSE <<>>

\* the inbound message main constructs the lamport clock module with
msgs_bar == Encode_TimestampedMsg([at |-> 0, payload |-> bar])

\* two senders, each with a well-formed bundle of timestamped messages
InboundBundles ==
    [s \in {0, 1} |-> IF s = 0 THEN Encode_TimestampedMsgs(<<[at |-> 1, payload |-> bar]>>)
                      ELSE Encode_TimestampedMsgs(<<>>)]

\* a bundle that announces one message and holds none
InboundCut == [s \in {1} |-> <<4>>]

Inbounds == { EmptyMap, [s \in {0} |-> msgs_bar], InboundBundles, InboundCut }

LamportClock(inbound) ==
    SpreeModule_new(SPREE_LAMPORT_CLOCK_WASM, SpreeIcmpAccumulator_with_inbound_msgs(inbound))

\* main with dummy-parachain: the module under handle 0 is given any inbound
\* messages, or any binary
MainModules ==
    { [h \in Handles |-> IF h = 0 THEN LamportClock(inbound) ELSE LamportClock(EmptyMap)]
        : inbound \in Inbounds }
    \cup
    { [h \in Handles |->
          IF h = 0
          THEN SpreeModule_new(wasm, SpreeIcmpAccumulator_with_inbound_msgs(EmptyMap))
          ELSE LamportClock(EmptyMap)]
        : wasm \in BrokenSpreeWasm }

Idle(binary) == [state |-> "idle", binary |-> binary, ncalls |-> 0]

InitMain ==
    /\ spree_modules \in MainModules
    /\ vb \in { Idle(b) : b \in { PARACHAIN_WASM, DummyParachain(0, <<>>),
                                  DummyParachain(0, <<7>>) } \cup BrokenParachains }
    /\ env = NoEnv
    /\ last = [op |-> "new"]

\* a free parachain over two lamport clock modules
Init ==
    /\ spree_modules = [h \in Handles |->
                           IF h = 0 THEN LamportClock(InboundBundles)
                           ELSE LamportClock(InboundCut)]
    /\ vb \in { Idle(FreeParachain(1337)), Idle(FreeParachain(0)) }
    /\ env = NoEnv
    /\ last = [op |-> "new"]

(***************************************************************************)
(* validate_block                                                          *)
(***************************************************************************)
\* validate_block up to the call of the guest's export
validate_block_begin ==
    /\ vb.state = "idle"
    /\ LET instance == instantiate_parachain(vb.binary)
           state == IF instance.result = "Panic" THEN "panic"
                    ELSE IF instance.result = "Err" \/ ~vb.binary.memory THEN "err"
                    ELSE "running" IN
       /\ vb' = [vb EXCEPT !.state = state]
       /\ last' = [op |-> "validate_block", result |-> state]
    /\ UNCHANGED <<spree_modules, env>>

\* the free parachain enqueues only while the module's timestamp is below the bound
MayIssue(h, b) ==
    LET blob == MemoryGet(b.memory, b.blob_ptr, b.blob_len) IN
    (/\ h \in Handles
     /\ blob.ok
     /\ Decode_Req(blob.val).ok
     /\ Decode_Req(blob.val).val.tag = "Enqueue")
        => TimestampOf(spree_modules[h]) < MaxTimestamp

\* the calls the guest may issue next
GuestCalls ==
    IF vb.binary.code = "dummy"
    THEN IF vb.ncalls < Len(vb.binary.program)
         THEN {call_lamport_clock(vb.binary.time_slice, vb.binary.program[vb.ncalls + 1])}
         ELSE {}
    ELSE IF vb.ncalls >= MaxCalls THEN {}
    ELSE { [spree_handle |-> hb[1], time_slice |-> vb.binary.time_slice,
            memory |-> hb[2].memory, blob_ptr |-> hb[2].blob_ptr, blob_len |-> hb[2].blob_len]
             : hb \in { x \in FreeHandles \X FreeBlobs : MayIssue(x[1], x[2]) } }

\* the orders in which the hash maps of the invocation made by `call` may
\* iterate; only Poll and FanOut iterate one
OrdersOf(call) ==
    LET blob == MemoryGet(call.memory, call.blob_ptr, call.blob_len) IN
    IF blob.ok /\ blob.val # <<>> /\ Head(blob.val) \in {1, 2} THEN Orders
    ELSE {<<0, 1>>}

\* the guest calls the host function call_spree
\* mutant: the guest runs on after a call_spree that failed
call_spree_resumed ==
    /\ vb.state = "running"
    /\ \E call \in GuestCalls : \E order \in OrdersOf(call) :
          LET r == CALL_SPREE(call.memory, spree_modules, call.spree_handle,
                              call.time_slice, call.blob_ptr, call.blob_len, order) IN
          /\ spree_modules' = r.spree_modules
          /\ vb' = [vb EXCEPT !.ncalls = @ + 1]
          /\ last' = [op |-> "call_spree", call |-> call, result |-> r.result,
                      error |-> r.error, invoked |-> r.invoked, guest |-> r.guest]
    /\ env' = env

call_spree ==
    /\ vb.state = "running"
    /\ \E call \in GuestCalls : \E order \in OrdersOf(call) :
          LET r == CALL_SPREE(call.memory, spree_modules, call.spree_handle,
                              call.time_slice, call.blob_ptr, call.blob_len, order) IN
          /\ spree_modules' = r.spree_modules
          /\ vb' = [vb EXCEPT !.ncalls = @ + 1,
                              !.state = IF r.result = "Ok" THEN "running"
                                        ELSE IF r.result = "Panic" THEN "panic"
                                        ELSE "err"]
          /\ last' = [op |-> "call_spree", call |-> call, result |-> r.result,
                      error |-> r.error, invoked |-> r.invoked, guest |-> r.guest]
    /\ env' = env

\* the guest's validate_block export returns
validate_block_return ==
    /\ vb.state = "running"
    /\ vb.binary.code = "dummy" => vb.ncalls = Len(vb.binary.program)
    /\ vb' = [vb EXCEPT !.state = "ok"]
    /\ last' = [op |-> "return"]
    /\ UNCHANGED <<spree_modules, env>>

Next ==
    \/ validate_block_begin
    \/ call_spree
    \/ validate_block_return

Spec == Init /\ [][Next]_vars

SpecMain == InitMain /\ [][Next]_vars

(***************************************************************************)
(* A SPREE module whose guest code is free: SpreeModule::invoke enters     *)
(* `handle`, the guest issues any host calls and stores to its memory,     *)
(* and returns or traps.                                                   *)
(***************************************************************************)
\* address ranges <<ptr, len>> the free guest passes; memory is 8 bytes
Ranges == { <<0, 0>>, <<0, 1>>, <<1, 1>>, <<7, 2>> }

OutPtrs == { 0, 1, 9 }

HostBlobs == { <<>>, <<2, 3>> }

InitHost ==
    /\ spree_modules =
          [h \in Handles |->
              IF h = 0
              THEN SpreeModule_new(FreeSpreeWasm,
                       SpreeIcmpAccumulator_with_inbound_msgs([s \in {1} |-> <<9>>]))
              ELSE SpreeModule_new([FreeSpreeWasm EXCEPT !.readable = FALSE],
                       SpreeIcmpAccumulator_with_inbound_msgs(EmptyMap))]
    /\ vb = [state |-> "host", binary |-> None, ncalls |-> 0, hostcalls |-> 0]
    /\ env = NoEnv
    /\ last = [op |-> "new"]

\* SpreeModule::invoke is called and reaches the guest's `handle`, or fails
invoke_begin ==
    /\ ~env.active
    /\ vb.ncalls < MaxInvokes
    /\ \E h \in Handles, blob \in HostBlobs :
          LET e == SpreeModule_enter(spree_modules[h], blob) IN
          /\ spree_modules' = [spree_modules EXCEPT ![h] = e.self]
          /\ env' = IF e.result = "Ok"
                    THEN [active |-> TRUE, spree_handle |-> h, blob |-> blob,
                          scratch_buf |-> e.env.scratch_buf, ncalls |-> 0]
                    ELSE NoEnv
          /\ last' = [op |-> "invoke", spree_handle |-> h, blob |-> blob, result |-> e.result]
    /\ vb' = [vb EXCEPT !.ncalls = @ + 1]

\* the host environment of the invocation in progress
HostEnv ==
    LET self == spree_modules[env.spree_handle] IN
    SpreeModuleHostEnv_new(env.scratch_buf, self.instance.memory, self.acc, self.storage)

\* mutant: a trap discards what the module had stored and sent
HostCalled_rolled_back(E1) ==
    /\ spree_modules' = [spree_modules EXCEPT ![env.spree_handle] =
          [@ EXCEPT !.acc = IF E1.trap THEN [E1.acc EXCEPT !.outbound = EmptyMap] ELSE E1.acc,
                    !.storage = IF E1.trap THEN EmptyMap ELSE E1.storage,
                    !.instance = [@ EXCEPT !.memory = E1.linear_memory]]]
    /\ env' = IF E1.trap THEN NoEnv
              ELSE [env EXCEPT !.scratch_buf = E1.scratch_buf, !.ncalls = @ + 1]
    /\ last' = [op |-> "host", spree_handle |-> env.spree_handle, call |-> E1.calls[1]]
    /\ vb' = [vb EXCEPT !.hostcalls = @ + 1]

\* the host call has run to E1: its effects stay, a trap ends the invocation
HostCalled(E1) ==
    /\ spree_modules' = [spree_modules EXCEPT ![env.spree_handle] =
          [@ EXCEPT !.acc = E1.acc, !.storage = E1.storage,
                    !.instance = [@ EXCEPT !.memory = E1.linear_memory]]]
    /\ env' = IF E1.trap THEN NoEnv
              ELSE [env EXCEPT !.scratch_buf = E1.scratch_buf, !.ncalls = @ + 1]
    /\ last' = [op |-> "host", spree_handle |-> env.spree_handle, call |-> E1.calls[1]]
    /\ vb' = [vb EXCEPT !.hostcalls = @ + 1]

MayCall == env.active /\ vb.hostcalls < MaxHostCalls

guest_scratch_buf_size ==
    /\ MayCall
    /\ HostCalled(SCRATCH_BUF_SIZE(HostEnv))

guest_scratch_buf_read ==
    /\ MayCall
    /\ \E out_ptr \in OutPtrs : HostCalled(SCRATCH_BUF_READ(HostEnv, out_ptr))

guest_send ==
    /\ MayCall
    /\ \E recepient \in {0, 1}, blob \in Ranges :
          HostCalled(SEND(HostEnv, recepient, blob[1], blob[2]))

guest_poll ==
    /\ MayCall
    /\ \E order \in Orders : HostCalled(POLL(HostEnv, order))

guest_storage_read ==
    /\ MayCall
    /\ \E key \in Ranges : HostCalled(STORAGE_READ(HostEnv, key[1], key[2]))

guest_storage_write ==
    /\ MayCall
    /\ \E key \in Ranges, val \in Ranges :
          HostCalled(STORAGE_WRITE(HostEnv, key[1], key[2], val[1], val[2]))

\* the guest stores a byte to its own linear memory
guest_store ==
    /\ MayCall
    /\ \E addr \in {0}, byte \in {4} :
          /\ spree_modules' = [spree_modules EXCEPT
                ![env.spree_handle].instance.memory[addr + 1] = byte]
          /\ last' = [op |-> "store", spree_handle |-> env.spree_handle,
                      addr |-> addr, byte |-> byte]
    /\ env' = [env EXCEPT !.ncalls = @ + 1]
    /\ vb' = [vb EXCEPT !.hostcalls = @ + 1]

\* the guest traps on its own (a panic, an `unreachable`): invoke_export
\* returns the trap and SpreeModule::invoke returns it as an error
guest_trap ==
    /\ env.active
    /\ env' = NoEnv
    /\ last' = [op |-> "trap", spree_handle |-> env.spree_handle]
    /\ UNCHANGED <<spree_modules, vb>>

\* the guest's `handle` returns: SpreeModule::invoke returns Ok
invoke_return ==
    /\ env.active
    /\ env' = NoEnv
    /\ last' = [op |-> "invoke_return", spree_handle |-> env.spree_handle]
    /\ UNCHANGED <<spree_modules, vb>>

NextHost ==
    \/ invoke_begin
    \/ guest_scratch_buf_size
    \/ guest_scratch_buf_read
    \/ guest_send
    \/ guest_poll
    \/ guest_storage_read
    \/ guest_storage_write
    \/ guest_store
    \/ guest_trap
    \/ invoke_return

SpecHost == InitHost /\ [][NextHost]_vars

(***************************************************************************)
(* Both host interfaces side by side: a validate_block of the free         *)
(* parachain over the lamport clock modules, whose guest calls call_spree, *)
(* or invocations of the free SPREE guest, which calls the SPREE host      *)
(* functions.  vb.state tells which of the two a behaviour is.  The        *)
(* parachain runs with the time slice main passes.                         *)
(***************************************************************************)
InitBoth ==
    \/ Init /\ vb.binary.time_slice = 1337
    \/ InitHost

NextBoth ==
    \/ vb.state # "host" /\ Next
    \/ vb.state = "host" /\ NextHost

SpecBoth == InitBoth /\ [][NextBoth]_vars

(***************************************************************************)
(* Reading the record of the last operation                                *)
(***************************************************************************)
IsCallSpree(l) == l.op = "call_spree"

\* the blob a call_spree names, when its range lies inside guest memory
BlobInMemory(call) == call.blob_ptr + call.blob_len <= Len(call.memory)

BlobOf(call) == SubSeq(call.memory, call.blob_ptr + 1, call.blob_ptr + call.blob_len)

\* the last operation entered `handle` with a blob that decodes to request `tag`
Handled(l, tag) ==
    /\ IsCallSpree(l)
    /\ l.guest.entered
    /\ Decode_Req(l.guest.scratch_buf).ok
    /\ Decode_Req(l.guest.scratch_buf).val.tag = tag

\* the sends among the host calls of the last invocation
SendsOf(l) == SelectSeq(l.guest.calls, LAMBDA c : c.fn = "send")

Ats(queue) == { queue[i].msg.at : i \in 1..Len(queue) }

(***************************************************************************)
(* C1  Timestamp monotonicity.  An Enqueue invocation succeeds, raises the *)
(* persisted Timestamp by exactly 1 and appends exactly one entry to the   *)
(* Pending Queue, whose timestamp is the new Timestamp and strictly        *)
(* greater than the timestamp of every entry already queued; a Poll        *)
(* invocation changes neither.  Hence N Enqueues with Polls interleaved    *)
(* and no FanOut leave Timestamp = pre + N and queue length = pre + N.     *)
(***************************************************************************)
C1_EnqueueStep ==
    \A h \in Handles :
       LET pre == spree_modules[h]
           post == spree_modules[h]' IN
       /\ (Handled(last', "Enqueue") /\ last'.invoked = <<h>>) =>
             /\ last'.result = "Ok"
             /\ TimestampOf(post) = TimestampOf(pre) + 1
             /\ Len(QueueOf(post)) = Len(QueueOf(pre)) + 1
             /\ SubSeq(QueueOf(post), 1, Len(QueueOf(pre))) = QueueOf(pre)
             /\ LET new == QueueOf(post)[Len(QueueOf(post))] IN
                /\ new.msg.at = TimestampOf(post)
                /\ \A at \in Ats(QueueOf(pre)) : new.msg.at > at
       /\ (Handled(last', "Poll") /\ last'.invoked = <<h>>) =>
             /\ TimestampOf(post) = TimestampOf(pre)
             /\ QueueOf(post) = QueueOf(pre)

C1_TimestampMonotonicity == [][C1_EnqueueStep]_vars

\* two Enqueues and a Poll between them, with no FanOut, have run on a module
C1_Witness ==
    /\ Handled(last, "Enqueue")
    /\ \E h \in Handles :
          /\ last.invoked = <<h>>
          /\ TimestampOf(spree_modules[h]) = 3
          /\ Len(QueueOf(spree_modules[h])) = 3
          /\ vb.ncalls = 4

\* the messages of `queue` addressed to `recepient`, in queue order
MsgsFor(queue, recepient) ==
    LET own == SelectSeq(queue, LAMBDA m : m.recepient = recepient) IN
    [i \in 1..Len(own) |-> own[i].msg]

RecepientsOf(queue) == { queue[i].recepient : i \in 1..Len(queue) }

(***************************************************************************)
(* C2  FanOut grouping.  A FanOut invocation on a module whose Pending     *)
(* Queue is not empty succeeds and issues exactly one send per distinct    *)
(* recipient in the queue; the blob sent to a recipient decodes to exactly *)
(* that recipient's messages in the order they were enqueued; the Pending  *)
(* Queue is empty afterwards.                                              *)
(***************************************************************************)
C2_FanOutStep ==
    \A h \in Handles :
       LET pre == QueueOf(spree_modules[h])
           sends == SendsOf(last') IN
       (Handled(last', "FanOut") /\ last'.invoked = <<h>> /\ pre # <<>>) =>
          /\ last'.result = "Ok"
          /\ Len(sends) = Cardinality(RecepientsOf(pre))
          /\ { sends[i].recepient : i \in 1..Len(sends) } = RecepientsOf(pre)
          /\ \A i \in 1..Len(sends) :
                /\ ~sends[i].trapped
                /\ Decode_TimestampedMsgs(sends[i].blob).ok
                /\ Decode_TimestampedMsgs(sends[i].blob).rest = <<>>
                /\ Decode_TimestampedMsgs(sends[i].blob).val = MsgsFor(pre, sends[i].recepient)
          /\ QueueOf(spree_modules[h]') = <<>>

C2_FanOutGrouping == [][C2_FanOutStep]_vars

\* a FanOut has drained the queue {1: foo, 0: bar, 1: <<7>>}: recipient 1 was
\* sent [foo, <<7>>] and recipient 0 was sent [bar]
C2_Witness ==
    /\ Handled(last, "FanOut")
    /\ Len(SendsOf(last)) = 2
    /\ \E i \in 1..2 :
          /\ SendsOf(last)[i].recepient = 1
          /\ Decode_TimestampedMsgs(SendsOf(last)[i].blob).val =
                <<[at |-> 1, payload |-> foo], [at |-> 3, payload |-> <<7>>]>>
          /\ SendsOf(last)[3 - i].recepient = 0
          /\ Decode_TimestampedMsgs(SendsOf(last)[3 - i].blob).val =
                <<[at |-> 2, payload |-> bar]>>
    /\ \E h \in Handles : last.invoked = <<h>> /\ QueueOf(spree_modules[h]) = <<>>

\* every slot of an inbound accumulator decodes as a sequence of {at, payload}
InboundDecodes(inbound) ==
    \A sender \in DOMAIN inbound : Decode_TimestampedMsgs(inbound[sender]).ok

\* validate_block has ended, with dummy-parachain as the parachain binary and
\* the lamport clock as the module under handle 0
DummyRunEnded ==
    /\ vb.state \in {"ok", "err", "panic"}
    /\ vb.binary.code = "dummy"
    /\ vb.binary = DummyParachain(vb.binary.program[2].recepient, vb.binary.program[2].payload)
    /\ spree_modules[0].wasm = SPREE_LAMPORT_CLOCK_WASM

\* Timestamp = 1, the Pending Queue is empty, and the outbound accumulator
\* holds exactly r mapped to the encoding of [{at: 1, payload: p}]
EndToEndResult ==
    LET r == vb.binary.program[2].recepient
        p == vb.binary.program[2].payload IN
    /\ TimestampOf(spree_modules[0]) = 1
    /\ QueueOf(spree_modules[0]) = <<>>
    /\ outbound_messages(spree_modules[0]) =
          [x \in {r} |-> Encode_TimestampedMsgs(<<[at |-> 1, payload |-> p]>>)]

(***************************************************************************)
(* C3 (as stated)  End-to-end.  For a fresh lamport clock module with any  *)
(* inbound accumulator, the validate_block of dummy-parachain (Poll,       *)
(* Enqueue{r, p}, FanOut) ends with Timestamp = 1, an empty Pending Queue  *)
(* and an outbound accumulator of exactly r mapped to the encoding of      *)
(* [{at: 1, payload: p}].                                                  *)
(***************************************************************************)
C3_EndToEnd_AnyInbound == DummyRunEnded => EndToEndResult

(***************************************************************************)
(* C3 (amended)  End-to-end.  For a fresh lamport clock module whose       *)
(* inbound accumulator holds, in every slot, bytes that decode as a        *)
(* sequence of {at, payload}, the validate_block of dummy-parachain (Poll, *)
(* Enqueue{r, p}, FanOut) returns Ok with Timestamp = 1, an empty Pending  *)
(* Queue and an outbound accumulator of exactly r mapped to the encoding   *)
(* of [{at: 1, payload: p}].                                               *)
(***************************************************************************)
C3_EndToEnd ==
    (DummyRunEnded /\ InboundDecodes(spree_modules[0].acc.inbound)) =>
        /\ vb.state = "ok"
        /\ EndToEndResult

\* main has run: dummy-parachain as built, over the inbound message main
\* constructs, has left recipient 1 the encoding of [{at: 1, payload: "foo"}]
C3_Witness ==
    /\ DummyRunEnded
    /\ vb.binary = PARACHAIN_WASM
    /\ vb.ncalls = 3
    /\ spree_modules[0].acc.inbound = [s \in {0} |-> msgs_bar]
    /\ outbound_messages(spree_modules[0]) =
          [x \in {1} |-> <<4, 1, 0, 0, 0, 0, 0, 0, 0, 12, 102, 111, 111>>]

(***************************************************************************)
(* C4  Dispatch to a registered handle.  A call_spree(h, time_slice, blob) *)
(* with h a registered handle and the blob inside guest memory invokes the *)
(* module under h exactly once and leaves every other module as it was;    *)
(* the module's instance being available, `handle` is entered with the     *)
(* scratch buffer equal to the blob and with time_slice as its argument.   *)
(***************************************************************************)
C4_DispatchStep ==
    LET call == last'.call
        h == call.spree_handle IN
    (IsCallSpree(last') /\ h \in Handles /\ BlobInMemory(call)) =>
       /\ last'.invoked = <<h>>
       /\ \A g \in Handles \ {h} : spree_modules[g]' = spree_modules[g]
       /\ ensure_instance(spree_modules[h].wasm, spree_modules[h].instance).result = "Ok" =>
             /\ last'.guest.entered
             /\ last'.guest.scratch_buf = BlobOf(call)
             /\ last'.guest.args = <<RuntimeValue_I32(call.time_slice)>>

C4_DispatchRegistered == [][C4_DispatchStep]_vars

\* call_spree(1, 1337, Enqueue{1, "foo"}) has entered `handle` of module 1
\* after module 0 had been invoked
C4_Witness ==
    /\ IsCallSpree(last)
    /\ last.call.spree_handle = 1
    /\ last.call.time_slice = 1337
    /\ last.invoked = <<1>>
    /\ last.guest.entered
    /\ last.guest.scratch_buf = Encode_Req(Enqueue(1, foo))
    /\ last.guest.args = <<RuntimeValue_I32(1337)>>
    /\ TimestampOf(spree_modules[0]) = 1
    /\ TimestampOf(spree_modules[1]) = 1

\* an unregistered handle: the call fails, no module is invoked and the
\* storage, accumulators and instance of every module are as before
UnregisteredStep(error_known) ==
    LET call == last'.call IN
    (IsCallSpree(last') /\ call.spree_handle \notin Handles) =>
       /\ last'.result = "Err"
       /\ last'.invoked = <<>>
       /\ spree_modules' = spree_modules
       /\ (error_known \/ BlobInMemory(call)) => last'.error = "HandleNotFound"

(***************************************************************************)
(* C5 (as stated)  Dispatch to an unregistered handle.  Every call_spree   *)
(* with a handle that is not registered fails with the handle-not-found    *)
(* error and leaves the storage, accumulators and instance of every        *)
(* registered module as they were.                                         *)
(***************************************************************************)
C5_DispatchUnregistered_AnyBlob == [][UnregisteredStep(TRUE)]_vars

(***************************************************************************)
(* C5 (amended)  Dispatch to an unregistered handle.  Every call_spree     *)
(* with a handle that is not registered fails and leaves the storage,      *)
(* accumulators and instance of every registered module as they were; the  *)
(* blob lying inside guest memory, the failure is the handle-not-found     *)
(* error.                                                                  *)
(***************************************************************************)
C5_DispatchUnregistered == [][UnregisteredStep(FALSE)]_vars

\* call_spree(2, ..) with a blob inside guest memory has failed with the
\* handle-not-found error while a module holds a timestamp and a queue
C5_Witness ==
    /\ IsCallSpree(last)
    /\ last.call.spree_handle = 2
    /\ BlobInMemory(last.call)
    /\ BlobOf(last.call) = Encode_Req(FanOut)
    /\ last.error = "HandleNotFound"
    /\ vb.state = "err"
    /\ TimestampOf(spree_modules[0]) = 2
    /\ Len(QueueOf(spree_modules[0])) = 2

(***************************************************************************)
(* C9  FanOut on an empty Pending Queue.  A FanOut invocation on a module  *)
(* whose Pending Queue is empty, its queue key never written included,     *)
(* succeeds and issues no send: the outbound accumulator is the same after *)
(* the invocation as before it, and the Pending Queue is still empty.      *)
(***************************************************************************)
C9_EmptyFanOutStep ==
    \A h \in Handles :
       (/\ Handled(last', "FanOut")
        /\ last'.invoked = <<h>>
        /\ QueueOf(spree_modules[h]) = <<>>) =>
          /\ last'.result = "Ok"
          /\ SendsOf(last') = <<>>
          /\ outbound_messages(spree_modules[h]') = outbound_messages(spree_modules[h])
          /\ QueueOf(spree_modules[h]') = <<>>

C9_EmptyFanOut == [][C9_EmptyFanOutStep]_vars

\* a FanOut has run on a module whose queue key had never been written (its
\* storage_read reported the key absent) and issued no send
C9_Witness ==
    /\ Handled(last, "FanOut")
    /\ last.result = "Ok"
    /\ SendsOf(last) = <<>>
    /\ \E i \in 1..Len(last.guest.calls) :
          /\ last.guest.calls[i].fn = "storage_read"
          /\ last.guest.calls[i].key = KEY_QUEUE
          /\ last.guest.calls[i].ret # 0
    /\ \E h \in Handles :
          /\ last.invoked = <<h>>
          /\ outbound_messages(spree_modules[h]) = EmptyMap
          /\ QueueOf(spree_modules[h]) = <<>>

\* the step is a call of host function `fn` by the free guest
HostStep(fn) == last'.op = "host" /\ last'.call.fn = fn

\* the module that made the host call of the step, before the call
Caller == spree_modules[last'.spree_handle]

\* the bytes of `memory` in the range ptr, len, which lies inside the memory
InMemory(memory, ptr, len) == ptr + len <= Len(memory)

Bytes(memory, ptr, len) == SubSeq(memory, ptr + 1, ptr + len)

(***************************************************************************)
(* C6  Accumulator conflict.  A send of a blob inside guest memory never   *)
(* faults: it returns 0 when the recipient's outbound slot is empty and a  *)
(* non-zero status when the slot is occupied, and in both cases the slot   *)
(* afterwards holds the payload of this send and the other slots are       *)
(* untouched.  No other step changes an outbound accumulator, so the slot  *)
(* written by a first send is still occupied at the second: the two calls  *)
(* return 0 and non-zero and the slot ends with the second payload.        *)
(***************************************************************************)
C6_SendStep ==
    /\ HostStep("send") =>
          LET call == last'.call
              memory == Caller.instance.memory
              before == Caller.acc.outbound
              after == spree_modules'[last'.spree_handle].acc.outbound IN
          InMemory(memory, call.blob_ptr, call.blob_len) =>
             /\ ~call.trapped
             /\ env'.active
             /\ call.recepient \notin DOMAIN before => call.ret = 0
             /\ call.recepient \in DOMAIN before => call.ret # 0
             /\ DOMAIN after = DOMAIN before \cup {call.recepient}
             /\ after[call.recepient] = Bytes(memory, call.blob_ptr, call.blob_len)
             /\ \A other \in DOMAIN before \ {call.recepient} : after[other] = before[other]
    /\ ~(HostStep("send") /\ ~last'.call.trapped) =>
          \A h \in Handles : spree_modules[h]'.acc.outbound = spree_modules[h].acc.outbound

StorageWriteStep ==
    \A h \in Handles :
       IF HostStep("storage_write") /\ ~last'.call.trapped /\ last'.spree_handle = h
       THEN LET call == last'.call
                memory == spree_modules[h].instance.memory
                key == Bytes(memory, call.key_ptr, call.key_len)
                val == Bytes(memory, call.val_ptr, call.val_len) IN
            /\ InMemory(memory, call.key_ptr, call.key_len)
            /\ InMemory(memory, call.val_ptr, call.val_len)
            /\ spree_modules[h]'.storage = MapInsert(spree_modules[h].storage, key, val)
       ELSE spree_modules[h]'.storage = spree_modules[h].storage

\* a storage_read of a key inside guest memory returns 0 and places the
\* stored value in the scratch buffer, or returns non-zero for an absent key
StorageReadStep ==
    HostStep("storage_read") =>
       LET call == last'.call
           memory == Caller.instance.memory
           key == Bytes(memory, call.key_ptr, call.key_len) IN
       InMemory(memory, call.key_ptr, call.key_len) =>
          /\ ~call.trapped
          /\ env'.active
          /\ key \in DOMAIN Caller.storage =>
                /\ call.ret = 0
                /\ env'.scratch_buf = Caller.storage[key]
          /\ key \notin DOMAIN Caller.storage =>
                /\ call.ret # 0
                /\ env'.scratch_buf = env.scratch_buf

(***************************************************************************)
(* C7  Storage round-trip.  A module starts with no key written.           *)
(* storage_write(k, v) sets k to v; no step other than a storage_write     *)
(* changes a module's storage, neither the return of an invocation nor the *)
(* entry of the next one nor a trap; storage_read(k) returns 0 and places  *)
(* exactly the value stored under k in the scratch buffer, and returns a   *)
(* non-zero status when k is absent.  Hence a read in a later invocation,  *)
(* with no write to k in between, yields v, and a key never written reads  *)
(* as absent.                                                              *)
(***************************************************************************)
C7_StorageRoundTrip ==
    /\ \A h \in Handles : spree_modules[h].storage = EmptyMap
    /\ [][StorageWriteStep /\ StorageReadStep]_vars

\* the first host call of the second invocation is a storage_read that
\* returns 0 with the value <<3>> written under key <<4>> by the first one
C7_Witness ==
    /\ last.op = "host"
    /\ last.call.fn = "storage_read"
    /\ ~last.call.trapped
    /\ last.call.ret = 0
    /\ last.call.key = <<4>>
    /\ vb.ncalls = 2
    /\ vb.hostcalls = 2
    /\ env.active
    /\ env.ncalls = 1
    /\ env.blob = <<>>
    /\ env.scratch_buf = <<3>>
    /\ spree_modules[0].storage = [k \in {<<4>>} |-> <<3>>]

\* the outputs poll may produce: the inbound accumulator encoded in some
\* order of iteration
PollOutputs(inbound) ==
    { Encode_InboundMsgs([i \in 1..Len(MapIter(inbound, order)) |->
                             <<MapIter(inbound, order)[i], inbound[MapIter(inbound, order)[i]]>>])
        : order \in Orders }

\* the step is a producing call: after it the scratch buffer is exactly the
\* producer's output
ProducerStep ==
    /\ (last'.op = "invoke" /\ last'.result = "Ok") =>
          /\ env'.active
          /\ env'.scratch_buf = last'.blob
    /\ HostStep("poll") =>
          /\ ~last'.call.trapped
          /\ env'.active
          /\ env'.scratch_buf \in PollOutputs(Caller.acc.inbound)
    /\ (HostStep("storage_read") /\ ~last'.call.trapped /\ last'.call.ret = 0) =>
          /\ env'.active
          /\ env'.scratch_buf = Caller.storage[last'.call.key]

\* every other step of an invocation leaves the scratch buffer as it is
NonProducerStep ==
    (/\ env.active
     /\ env'.active
     /\ ~HostStep("poll")
     /\ ~(HostStep("storage_read") /\ last'.call.ret = 0)) =>
        env'.scratch_buf = env.scratch_buf

\* scratch_buf_size returns the length of the scratch buffer;
\* scratch_buf_read, the buffer fitting in memory at out_ptr, copies exactly
\* the buffer there and leaves every other byte of memory as it was
ConsumerStep ==
    /\ HostStep("scratch_buf_size") =>
          /\ ~last'.call.trapped
          /\ last'.call.ret = Len(env.scratch_buf)
    /\ HostStep("scratch_buf_read") =>
          LET out_ptr == last'.call.out_ptr
              before == Caller.instance.memory
              after == spree_modules'[last'.spree_handle].instance.memory IN
          InMemory(before, out_ptr, Len(env.scratch_buf)) =>
             /\ ~last'.call.trapped
             /\ Len(after) = Len(before)
             /\ Bytes(after, out_ptr, Len(env.scratch_buf)) = env.scratch_buf
             /\ \A i \in 1..Len(before) :
                   (i <= out_ptr \/ i > out_ptr + Len(env.scratch_buf)) => after[i] = before[i]

(***************************************************************************)
(* C8  Scratch buffer handshake.  After a producing call (the seeding at   *)
(* the entry of an invocation, poll, a storage_read that finds its key)    *)
(* the scratch buffer is exactly the producer's output, whatever it held   *)
(* before, and no other step of the invocation changes it;                 *)
(* scratch_buf_size returns its length and scratch_buf_read copies exactly *)
(* its bytes into guest memory.                                            *)
(***************************************************************************)
C8_ScratchBufferHandshake == [][ProducerStep /\ NonProducerStep /\ ConsumerStep]_vars

\* an invocation seeded with <<2, 3>> has polled, and scratch_buf_read has
\* copied the 7 bytes of poll's output to address 1
C8_Witness ==
    /\ last.op = "host"
    /\ last.call.fn = "scratch_buf_read"
    /\ ~last.call.trapped
    /\ last.call.out_ptr = 1
    /\ env.active
    /\ env.blob = <<2, 3>>
    /\ env.ncalls = 2
    /\ env.scratch_buf = <<4, 1, 0, 0, 0, 4, 9>>
    /\ spree_modules[0].instance.memory = <<3, 4, 1, 0, 0, 0, 4, 9>>

\* the functions the gateway declares, each with its signature
DeclaredFunctions ==
    [scratch_buf_size |-> Sig(<<>>, "I32"),
     scratch_buf_read |-> Sig(<<"I32">>, None),
     send |-> Sig(<<"I32", "I32", "I32">>, "I32"),
     poll |-> Sig(<<>>, None),
     storage_read |-> Sig(<<"I32", "I32">>, "I32"),
     storage_write |-> Sig(<<"I32", "I32", "I32", "I32">>, None)]

\* the imports of a binary that name no declared function, or name one with
\* another signature
Undeclared(wasm) ==
    { import \in wasm.imports :
         \/ import.field \notin DOMAIN DeclaredFunctions
         \/ import.sig # DeclaredFunctions[import.field] }

(***************************************************************************)
(* C10  Link-time resolution.  An import of a module's binary is resolved  *)
(* only if its field name is one of scratch_buf_size, scratch_buf_read,    *)
(* send, poll, storage_read, storage_write and its signature is the one    *)
(* declared for that name.  Invoking a module whose binary has any other   *)
(* import fails at instantiation: `handle` is not entered, no host         *)
(* function runs, and the module keeps no instance and is otherwise        *)
(* unchanged.                                                              *)
(***************************************************************************)
C10_LinkStep ==
    \A h \in Handles :
       (IsCallSpree(last') /\ last'.invoked = <<h>>) =>
          LET wasm == spree_modules[h].wasm IN
          /\ \A import \in wasm.imports :
                SpreeImports_resolve(import).ok => import \notin Undeclared(wasm)
          /\ Undeclared(wasm) # {} =>
                /\ last'.result = "Err"
                /\ wasm.readable => last'.error = "Instantiation"
                /\ ~last'.guest.entered
                /\ last'.guest.calls = <<>>
                /\ spree_modules[h]' = spree_modules[h]
                /\ ~spree_modules[h]'.instance.some
          /\ last'.guest.entered => Undeclared(wasm) = {}

C10_LinkTimeResolution == [][C10_LinkStep]_vars

\* the first call_spree of dummy-parachain into a module whose binary imports
\* `send` with no result has failed at instantiation
C10_Witness ==
    /\ IsCallSpree(last)
    /\ last.invoked = <<0>>
    /\ last.error = "Instantiation"
    /\ ~last.guest.entered
    /\ Import("env", "send", Sig(<<"I32", "I32", "I32">>, None)) \in spree_modules[0].wasm.imports
    /\ Import("env", "poll", Sig(<<>>, None)) \in spree_modules[0].wasm.imports
    /\ ~spree_modules[0].instance.some
    /\ spree_modules[0].storage = EmptyMap
    /\ vb.state = "err"

\* the step is a call of SpreeModule::invoke on the module under handle h
InvokeStep(h) == last'.op = "invoke" /\ last'.spree_handle = h

(***************************************************************************)
(* C11  Instantiation cache.  A module is constructed without an instance. *)
(* Only an invoke of the module creates its instance, and only when the    *)
(* instantiation succeeds; an invoke that fails to instantiate leaves the  *)
(* module without one.  An invoke of a module that has an instance reuses  *)
(* it as it is, linear memory included, and no step clears an instance.    *)
(***************************************************************************)
C11_CacheStep ==
    \A h \in Handles :
       LET before == spree_modules[h].instance
           after == spree_modules'[h].instance IN
       /\ before.some => after.some
       /\ (~before.some /\ after.some) =>
             /\ InvokeStep(h)
             /\ last'.result = "Ok"
             /\ after = Instance(spree_modules[h].wasm)
       /\ (InvokeStep(h) /\ last'.result # "Ok") => ~after.some
       /\ (InvokeStep(h) /\ before.some) =>
             /\ last'.result = "Ok"
             /\ after = before

C11_InstantiationCache ==
    /\ \A h \in Handles : ~spree_modules[h].instance.some
    /\ [][C11_CacheStep]_vars

\* the second invoke of module 0 has entered `handle` on the instance the
\* first one created, whose memory holds the byte the guest stored then
C11_Witness ==
    /\ last.op = "invoke"
    /\ last.spree_handle = 0
    /\ last.result = "Ok"
    /\ vb.ncalls = 2
    /\ spree_modules[0].instance.some
    /\ spree_modules[0].instance.memory = <<4, 4, 5, 6, 7, 8, 9, 10>>
    /\ ~spree_modules[1].instance.some

\* the timestamps of the messages a module has in its outbound accumulator:
\* those the FanOuts so far have drained and that no later send replaced
DrainedAts(module) ==
    UNION { { Decode_TimestampedMsgs(module.acc.outbound[r]).val[i].at
                 : i \in 1..Len(Decode_TimestampedMsgs(module.acc.outbound[r]).val) }
              : r \in DOMAIN module.acc.outbound }

(***************************************************************************)
(* C12  The persisted Timestamp never decreases.  It changes only in an    *)
(* Enqueue invocation of the module, by exactly 1; FanOut and every other  *)
(* step leave it as it is.  No message, queued or drained, carries a       *)
(* timestamp above the persisted one, so the message an Enqueue appends is *)
(* stamped strictly above every message drained before it.                 *)
(***************************************************************************)
C12_TimestampStep ==
    \A h \in Handles :
       LET pre == spree_modules[h]
           post == spree_modules'[h] IN
       /\ TimestampOf(post) >= TimestampOf(pre)
       /\ TimestampOf(post) # TimestampOf(pre) =>
             /\ Handled(last', "Enqueue")
             /\ last'.invoked = <<h>>
             /\ TimestampOf(post) = TimestampOf(pre) + 1
       /\ (Handled(last', "FanOut") /\ last'.invoked = <<h>>) =>
             TimestampOf(post) = TimestampOf(pre)
       /\ \A at \in Ats(QueueOf(post)) \cup DrainedAts(post) : at <= TimestampOf(post)
       /\ (Handled(last', "Enqueue") /\ last'.invoked = <<h>>) =>
             \A at \in DrainedAts(pre) : QueueOf(post)[Len(QueueOf(post))].msg.at > at

C12_TimestampNeverDecreases == [][C12_TimestampStep]_vars

\* an Enqueue has followed a FanOut that drained two messages: the queue
\* holds the one new message, stamped 3, above the drained stamps 1 and 2
C12_Witness ==
    /\ Handled(last, "Enqueue")
    /\ \E h \in Handles :
          /\ last.invoked = <<h>>
          /\ TimestampOf(spree_modules[h]) = 3
          /\ Ats(QueueOf(spree_modules[h])) = {3}
          /\ DrainedAts(spree_modules[h]) = {1, 2}

(***************************************************************************)
(* C13  Conflict reachability.  The sends of one FanOut invocation go to   *)
(* pairwise different recipients, and a send of a FanOut returns non-zero  *)
(* only if the outbound accumulator of the module held a slot for that     *)
(* recipient when the FanOut began.                                        *)
(***************************************************************************)
C13_FanOutSendsStep ==
    \A h \in Handles :
       LET sends == SendsOf(last') IN
       (Handled(last', "FanOut") /\ last'.invoked = <<h>>) =>
          /\ \A i, j \in 1..Len(sends) :
                sends[i].recepient = sends[j].recepient => i = j
          /\ \A i \in 1..Len(sends) :
                /\ ~sends[i].trapped
                /\ sends[i].ret # 0 =>
                      sends[i].recepient \in DOMAIN outbound_messages(spree_modules[h])

C13_ConflictReachability == [][C13_FanOutSendsStep]_vars

\* the second FanOut of a module has sent to the recipient the first one had
\* sent to, and that send returned 1
C13_Witness ==
    /\ Handled(last, "FanOut")
    /\ vb.ncalls = 4
    /\ Len(SendsOf(last)) = 1
    /\ SendsOf(last)[1].recepient = 1
    /\ SendsOf(last)[1].ret = 1
    /\ Decode_TimestampedMsgs(SendsOf(last)[1].blob).val = <<[at |-> 2, payload |-> <<7>>]>>

\* the step is a fault of the invocation in progress: a host call that traps
\* or a trap of the guest itself
FaultStep == (last'.op = "host" /\ last'.call.trapped) \/ last'.op = "trap"

(***************************************************************************)
(* C14  No rollback.  A fault of an invocation, a trapping host call or a  *)
(* trap of the guest itself, leaves the storage and the accumulators of    *)
(* the module as the host calls completed before the fault left them; the  *)
(* invocation having ended, they stay so until a later invocation writes.  *)
(***************************************************************************)
C14_FaultKeepsWrites ==
    \A h \in Handles :
       /\ FaultStep => ~env'.active
       /\ (FaultStep \/ ~env.active) =>
             /\ spree_modules'[h].storage = spree_modules[h].storage
             /\ spree_modules'[h].acc = spree_modules[h].acc

C14_NoRollback == [][C14_FaultKeepsWrites]_vars

\* the first invocation of module 0 has written a key and sent a blob and
\* then faulted: the key and the outbound slot are there
C14_Witness ==
    /\ vb.ncalls = 1
    /\ ~env.active
    /\ last.spree_handle = 0
    /\ \/ last.op = "trap"
       \/ last.op = "host" /\ last.call.trapped
    /\ spree_modules[0].storage = [k \in {<<3>>} |-> <<4>>]
    /\ outbound_messages(spree_modules[0]) = [r \in {1} |-> <<3>>]

\* the step is a call of a host function with a range that reaches beyond
\* the memory of the guest that calls it
RangeViolation ==
    \/ IsCallSpree(last') /\ ~BlobInMemory(last'.call)
    \/ /\ last'.op = "host"
       /\ LET call == last'.call
              memory == Caller.instance.memory IN
          \/ call.fn = "send" /\ ~InMemory(memory, call.blob_ptr, call.blob_len)
          \/ call.fn = "storage_read" /\ ~InMemory(memory, call.key_ptr, call.key_len)
          \/ /\ call.fn = "storage_write"
             /\ \/ ~InMemory(memory, call.key_ptr, call.key_len)
                \/ ~InMemory(memory, call.val_ptr, call.val_len)
          \/ call.fn = "scratch_buf_read" /\ ~InMemory(memory, call.out_ptr, Len(env.scratch_buf))

\* the environment the host call of the step, a call by the free guest, left
HostOutcome ==
    LET call == last'.call IN
    CASE call.fn = "send" -> SEND(HostEnv, call.recepient, call.blob_ptr, call.blob_len)
      [] call.fn = "storage_read" -> STORAGE_READ(HostEnv, call.key_ptr, call.key_len)
      [] call.fn = "storage_write" ->
            STORAGE_WRITE(HostEnv, call.key_ptr, call.key_len, call.val_ptr, call.val_len)
      [] call.fn = "scratch_buf_read" -> SCRATCH_BUF_READ(HostEnv, call.out_ptr)

(***************************************************************************)
(* C15  Bounds violation.  A call of call_spree, send, storage_read,       *)
(* storage_write or scratch_buf_read with a range that reaches beyond the  *)
(* guest's memory fails the call in flight and has no effect: the storage, *)
(* the inbound and outbound accumulators and the instance of every module  *)
(* are as before and the scratch buffer is as before; a failing call_spree *)
(* invokes no module; a storage_write whose key range is valid and whose   *)
(* value range is not writes nothing.                                      *)
(***************************************************************************)
C15_BoundsStep ==
    RangeViolation =>
       /\ spree_modules' = spree_modules
       /\ IF IsCallSpree(last')
          THEN /\ last'.result = "Err"
               /\ last'.error = "Memory"
               /\ last'.invoked = <<>>
               /\ vb'.state = "err"
          ELSE /\ last'.call.trapped
               /\ ~env'.active
               /\ HostOutcome.trap
               /\ HostOutcome.scratch_buf = env.scratch_buf

C15_BoundsViolation == [][C15_BoundsStep]_vars

\* a storage_write with a key range inside the memory and a value range
\* beyond it has trapped; the storage holds what an earlier write stored
C15_Witness ==
    /\ last.op = "host"
    /\ last.call.fn = "storage_write"
    /\ last.call.trapped
    /\ last.call.key_ptr = 1 /\ last.call.key_len = 1
    /\ last.call.val_ptr = 7 /\ last.call.val_len = 2
    /\ ~env.active
    /\ spree_modules[last.spree_handle].storage = [k \in {<<3>>} |-> <<4>>]

(***************************************************************************)
(* C16  Fatal errors abort the whole top-level operation.  A call_spree    *)
(* that fails, for an unregistered handle, a range beyond guest memory or  *)
(* a fault inside invoke, makes validate_block return an error; after it   *)
(* no call_spree is performed and no module changes.                       *)
(***************************************************************************)
C16_FatalStep ==
    /\ (IsCallSpree(last') /\ last'.result # "Ok") => vb'.state = "err"
    /\ vb.state = "err" =>
          /\ vb'.state = "err"
          /\ vb'.ncalls = vb.ncalls
          /\ spree_modules' = spree_modules

C16_FatalErrorsAbort == [][C16_FatalStep]_vars

\* the second call_spree of a validate_block has faulted inside invoke, on
\* a blob that is no request, after the first had enqueued: validate_block
\* has returned an error
C16_Witness ==
    /\ vb.state = "err"
    /\ vb.ncalls = 2
    /\ IsCallSpree(last)
    /\ last.invoked = <<0>>
    /\ last.error = "Trap"
    /\ TimestampOf(spree_modules[0]) = 1

\* the step is an invocation of the module under h whose seeded blob does
\* not decode as a request
UndecodableStep(h) ==
    /\ IsCallSpree(last')
    /\ last'.invoked = <<h>>
    /\ last'.guest.entered
    /\ ~Decode_Req(last'.guest.scratch_buf).ok

(***************************************************************************)
(* C17  Decode failure is fatal and side-effect free.  An invocation whose *)
(* seeded blob does not decode as a request, the empty blob included,      *)
(* faults: invoke returns the error, and the storage of the module, with   *)
(* its Timestamp and Pending Queue, and its outbound accumulator are the   *)
(* same after the invocation as before it.                                 *)
(***************************************************************************)
C17_DecodeFailureStep ==
    \A h \in Handles :
       UndecodableStep(h) =>
          /\ last'.result = "Err"
          /\ last'.error = "Trap"
          /\ vb'.state = "err"
          /\ spree_modules'[h].storage = spree_modules[h].storage
          /\ TimestampOf(spree_modules'[h]) = TimestampOf(spree_modules[h])
          /\ QueueOf(spree_modules'[h]) = QueueOf(spree_modules[h])
          /\ outbound_messages(spree_modules'[h]) = outbound_messages(spree_modules[h])

C17_DecodeFailure == [][C17_DecodeFailureStep]_vars

\* the empty blob has been passed to a module that holds a timestamp, a
\* queued message and an outbound slot: the invocation has faulted
C17_Witness ==
    /\ IsCallSpree(last)
    /\ last.invoked = <<0>>
    /\ last.guest.entered
    /\ last.guest.scratch_buf = <<>>
    /\ last.error = "Trap"
    /\ TimestampOf(spree_modules[0]) = 2
    /\ Len(QueueOf(spree_modules[0])) = 1
    /\ DOMAIN outbound_messages(spree_modules[0]) = {1}

\* the registered modules with every module but h replaced by a lamport
\* clock module as SpreeModule::new leaves it
OthersFresh(h) ==
    [g \in Handles |-> IF g = h THEN spree_modules[h] ELSE LamportClock(EmptyMap)]

(***************************************************************************)
(* C18  Runtime isolation.  An invocation dispatched to handle h leaves    *)
(* every other registered module as it was, and what it does to the module *)
(* under h, its result and the host calls it makes are those of the same   *)
(* invocation with every other module replaced by a new one: it reads and  *)
(* writes the storage, accumulator and instance of that module only,       *)
(* whatever the request and whether it succeeds or faults.                 *)
(***************************************************************************)
C18_IsolationStep ==
    \A h \in Handles :
       (IsCallSpree(last') /\ last'.invoked = <<h>>) =>
          /\ \A g \in Handles \ {h} : spree_modules'[g] = spree_modules[g]
          /\ \E order \in OrdersOf(last'.call) :
                LET call == last'.call
                    alone == CALL_SPREE(call.memory, OthersFresh(h), h, call.time_slice,
                                        call.blob_ptr, call.blob_len, order) IN
                /\ alone.spree_modules[h] = spree_modules'[h]
                /\ alone.result = last'.result
                /\ alone.error = last'.error
                /\ alone.guest = last'.guest

C18_RuntimeIsolation == [][C18_IsolationStep]_vars

\* a FanOut on module 1 has sent its queue while module 0 holds a timestamp
\* of 2 and two queued messages, which are still there
C18_Witness ==
    /\ Handled(last, "FanOut")
    /\ last.invoked = <<1>>
    /\ Len(SendsOf(last)) = 1
    /\ TimestampOf(spree_modules[1]) = 1
    /\ QueueOf(spree_modules[1]) = <<>>
    /\ TimestampOf(spree_modules[0]) = 2
    /\ Len(QueueOf(spree_modules[0])) = 2

\* the host calls the step made on behalf of the module under h, in order
StepCalls(h) ==
    IF IsCallSpree(last')
    THEN IF last'.invoked = <<h>> THEN last'.guest.calls ELSE <<>>
    ELSE IF last'.op = "host" /\ last'.spree_handle = h THEN <<last'.call>>
    ELSE <<>>

\* the storage_writes to `key` among `calls` that did not trap
WritesTo(calls, key) ==
    SelectSeq(calls, LAMBDA c : c.fn = "storage_write" /\ ~c.trapped /\ c.key = key)

(***************************************************************************)
(* C19  Storage has no delete.  No step removes a key from the storage of  *)
(* a module: a key that was written stays present and holds the value of   *)
(* the most recent storage_write to it.  A FanOut stores the emptied       *)
(* Pending Queue as the encoding of the empty sequence under the queue's   *)
(* key; it does not remove the key.                                        *)
(***************************************************************************)
C19_StorageStep ==
    \A h \in Handles :
       LET before == spree_modules[h].storage
           after == spree_modules'[h].storage IN
       /\ DOMAIN before \subseteq DOMAIN after
       /\ \A key \in DOMAIN after :
             LET writes == WritesTo(StepCalls(h), key) IN
             IF writes # <<>> THEN after[key] = writes[Len(writes)].val
             ELSE key \in DOMAIN before /\ after[key] = before[key]
       /\ (Handled(last', "FanOut") /\ last'.invoked = <<h>> /\ last'.result = "Ok") =>
             /\ KEY_QUEUE \in DOMAIN after
             /\ after[KEY_QUEUE] = Encode_TargetedMsgs(<<>>)

C19_StorageHasNoDelete == [][C19_StorageStep]_vars

\* a FanOut has emptied a queue of two messages: the queue's key is present
\* and holds the encoding of the empty sequence, the timestamp's key is kept
C19_Witness ==
    /\ Handled(last, "FanOut")
    /\ Len(SendsOf(last)) = 2
    /\ \E h \in Handles :
          /\ last.invoked = <<h>>
          /\ DOMAIN spree_modules[h].storage = {KEY_QUEUE, KEY_CURRENT_TIMESTAMP}
          /\ spree_modules[h].storage[KEY_QUEUE] = <<0>>
          /\ TimestampOf(spree_modules[h]) = 2

(***************************************************************************)
(* C20  Poll changes nothing but the scratch buffer.  A Poll invocation,   *)
(* whether it succeeds or faults, leaves the storage and the inbound and   *)
(* outbound accumulators of the module as they were: it issues no          *)
(* storage_write and no send, and the poll it issues yields an encoding of *)
(* the inbound accumulator as it was before, which is not drained, so      *)
(* every Poll in a row observes the same inbound messages.                 *)
(***************************************************************************)
C20_PollStep ==
    \A h \in Handles :
       (Handled(last', "Poll") /\ last'.invoked = <<h>>) =>
          LET calls == last'.guest.calls IN
          /\ spree_modules'[h].storage = spree_modules[h].storage
          /\ spree_modules'[h].acc.inbound = spree_modules[h].acc.inbound
          /\ spree_modules'[h].acc.outbound = spree_modules[h].acc.outbound
          /\ \A i \in 1..Len(calls) : calls[i].fn \notin {"storage_write", "send"}
          /\ Len(calls) >= 4
          /\ calls[3].fn = "poll" /\ ~calls[3].trapped
          /\ calls[4].fn = "scratch_buf_size"
          /\ calls[4].ret \in { Len(output) : output \in PollOutputs(spree_modules[h].acc.inbound) }

C20_PollChangesNothing == [][C20_PollStep]_vars

\* the third Poll in a row of module 0, whose inbound accumulator holds
\* messages, has succeeded; no module has written anything
C20_Witness ==
    /\ Handled(last, "Poll")
    /\ last.result = "Ok"
    /\ last.invoked = <<0>>
    /\ vb.ncalls = 3
    /\ spree_modules[0].acc.inbound # EmptyMap
    /\ \A h \in Handles :
          /\ spree_modules[h].storage = EmptyMap
          /\ outbound_messages(spree_modules[h]) = EmptyMap

\* the step is a host call that returned and is no producer: scratch_buf_size,
\* scratch_buf_read, send, storage_write, or a storage_read of an absent key
ReturnedNonProducer ==
    /\ last'.op = "host"
    /\ ~last'.call.trapped
    /\ \/ last'.call.fn \in {"scratch_buf_size", "scratch_buf_read", "send", "storage_write"}
       \/ last'.call.fn = "storage_read" /\ last'.call.ret # 0

(***************************************************************************)
(* C21  Only producers touch the scratch buffer.  scratch_buf_size,        *)
(* scratch_buf_read, send, storage_write and a storage_read of an absent   *)
(* key leave the contents of the scratch buffer as they were.  The buffer  *)
(* gets its contents at the entry of an invocation, from the blob, and     *)
(* they change afterwards only on a poll or on a storage_read that finds   *)
(* its key.                                                                *)
(***************************************************************************)
C21_ScratchStep ==
    /\ ReturnedNonProducer =>
          /\ env'.active
          /\ env'.scratch_buf = env.scratch_buf
    /\ (~env.active /\ env'.active) =>
          /\ InvokeStep(env'.spree_handle)
          /\ env'.scratch_buf = last'.blob
    /\ (env.active /\ env'.active /\ env'.scratch_buf # env.scratch_buf) =>
          \/ HostStep("poll")
          \/ HostStep("storage_read") /\ last'.call.ret = 0

C21_OnlyProducersTouchScratch == [][C21_ScratchStep]_vars

\* an invocation seeded with <<2, 3>> has sent, written a key and read an
\* absent key, which returned 1: the scratch buffer still holds <<2, 3>>
C21_Witness ==
    /\ last.op = "host"
    /\ last.call.fn = "storage_read"
    /\ ~last.call.trapped
    /\ last.call.ret = 1
    /\ env.active
    /\ env.ncalls = 3
    /\ env.blob = <<2, 3>>
    /\ env.scratch_buf = <<2, 3>>
    /\ spree_modules[env.spree_handle].storage # EmptyMap
    /\ outbound_messages(spree_modules[env.spree_handle]) # EmptyMap

(***************************************************************************)
(* C22  The outbound accumulator is never drained.  No step, host call or  *)
(* invocation, removes a recipient from the outbound accumulator of a      *)
(* module: its set of occupied recipients only grows.  A send that returns *)
(* to a recipient whose slot is occupied returns a non-zero status, so     *)
(* once a slot has been filled every later send to it does, in the same    *)
(* invocation or in a later one.                                           *)
(***************************************************************************)
C22_OutboundStep ==
    /\ \A h \in Handles :
          DOMAIN outbound_messages(spree_modules[h]) \subseteq
             DOMAIN outbound_messages(spree_modules'[h])
    /\ (/\ HostStep("send")
        /\ ~last'.call.trapped
        /\ last'.call.recepient \in DOMAIN outbound_messages(Caller)) =>
          last'.call.ret # 0

SlotMsgs(outbound, recepient) == Decode_TimestampedMsgs(outbound[recepient]).val

(***************************************************************************)
(* C23  FanOut onto an occupied slot overwrites silently.  When a FanOut   *)
(* sends a group to a recipient whose outbound slot is occupied, the       *)
(* invocation succeeds although the send returns a non-zero status, the    *)
(* Pending Queue is empty afterwards and the slot holds exactly the newer  *)
(* group; the messages the slot held before are afterwards neither in the  *)
(* outbound accumulator nor in the Pending Queue.                          *)
(***************************************************************************)
C23_OverwriteStep ==
    \A h \in Handles :
       LET queue == QueueOf(spree_modules[h])
           before == outbound_messages(spree_modules[h])
           after == outbound_messages(spree_modules'[h])
           sends == SendsOf(last') IN
       (Handled(last', "FanOut") /\ last'.invoked = <<h>>) =>
          \A r \in RecepientsOf(queue) \cap DOMAIN before :
             /\ last'.result = "Ok"
             /\ \E i \in 1..Len(sends) :
                   /\ sends[i].recepient = r
                   /\ ~sends[i].trapped
                   /\ sends[i].ret # 0
             /\ QueueOf(spree_modules'[h]) = <<>>
             /\ SlotMsgs(after, r) = MsgsFor(queue, r)
             /\ \A i \in 1..Len(SlotMsgs(before, r)) :
                   /\ SlotMsgs(before, r)[i].at \notin DrainedAts(spree_modules'[h])
                   /\ SlotMsgs(before, r)[i].at \notin Ats(QueueOf(spree_modules'[h]))

InvokedWith(h, order) ==
    CALL_SPREE(last'.call.memory, spree_modules, h, last'.call.time_slice,
               last'.call.blob_ptr, last'.call.blob_len, order).spree_modules[h]

(***************************************************************************)
(* C24  FanOut is deterministic despite unordered grouping.  For a given   *)
(* Pending Queue and outbound accumulator, the outbound accumulator and    *)
(* the storage after a FanOut are the same for every order in which the    *)
(* groups are sent: whatever order the step took, every other order leaves *)
(* the module with the same outbound accumulator and the same storage.     *)
(***************************************************************************)
C24_FanOutOrderStep ==
    \A h \in Handles :
       (Handled(last', "FanOut") /\ last'.invoked = <<h>>) =>
          \A order \in Orders :
             /\ outbound_messages(InvokedWith(h, order)) = outbound_messages(spree_modules'[h])
             /\ InvokedWith(h, order).storage = spree_modules'[h].storage

C24_FanOutDeterministic == [][C24_FanOutOrderStep]_vars

\* a FanOut has sent two groups, to recipient 0 first and to recipient 1
\* second: each of the two slots holds the group sent to it
C24_Witness ==
    /\ Handled(last, "FanOut")
    /\ last.result = "Ok"
    /\ Len(SendsOf(last)) = 2
    /\ SendsOf(last)[1].recepient = 0
    /\ SendsOf(last)[2].recepient = 1
    /\ \E h \in Handles :
          /\ last.invoked = <<h>>
          /\ DOMAIN outbound_messages(spree_modules[h]) = {0, 1}
          /\ outbound_messages(spree_modules[h])[0] = SendsOf(last)[1].blob
          /\ outbound_messages(spree_modules[h])[1] = SendsOf(last)[2].blob

====
